---------------------------- MODULE Spec2Model ----------------------------
(***************************************************************************)
(* A model of the WinPassword credential store: the encrypted record store *)
(* (database/password_db.py), the replication engine (utils/cloud_sync.py),*)
(* the path resolution policy (utils/config.py) and the cipher             *)
(* (utils/auth.py).                                                        *)
(*                                                                         *)
(* Encoding.  Strings the program manipulates character by character       *)
(* (secrets, which are stripped) are sequences of one-character strings.   *)
(* A path is a record [dir, name, tmp]: os.path.join(d, n) is P(d, n),     *)
(* os.path.basename is .name, os.path.dirname is .dir, and p + ".tmp" is   *)
(* Tmp(p).  The category "其他" of the source is written "Other", and the   *)
(* other default categories are written in English as well.                *)
(***************************************************************************)
EXTENDS Integers, Sequences, FiniteSets, TLC

(***************************************************************************)
(* Bounds of the model.                                                    *)
(***************************************************************************)
MaxTime == 3          \* the clock runs from 0 to MaxTime
TicksPerSecond == 2   \* clock ticks per second of the backup timestamp
MaxRecords == 2       \* add_password is not called beyond this many records
MaxCategories == 7
MaxSaves == 3
BackupCount == 2    \* add_category / import are not called beyond this length
NumSalts == 1         \* os.urandom(16) draws from 1..NumSalts
MaxImported == 2      \* records in an import file
MaxOrphans == 2       \* timers left running without a reference

VARIABLES
    now,              \* the wall clock (time.time(), datetime.now())
    fs,               \* the file system: path -> file
    backups,          \* the backup directories: db directory -> set of .bak files
    env,              \* the environment: existing / writable directories, I/O faults
    config,           \* Config.config
    store,            \* the PasswordDatabase object
    session,          \* Uninitialized / Open / Closed (spec 4.2; not a field of the code)
    sync_lock,        \* CloudSyncManager.sync_lock of each manager: its holder
    is_syncing,       \* CloudSyncManager.is_syncing of each manager
    auto_sync_timer,  \* CloudSyncManager.auto_sync_timer of each manager
    th,               \* each thread's position and locals
    result,           \* what the last call on the UI thread returned
    hist,             \* history: what the calls so far were given and returned
    sync_log          \* what the last sync_to_remote / sync_from_remote call returned

vars == <<now, fs, backups, env, config, store, session, sync_lock, is_syncing,
          auto_sync_timer, th, result, hist, sync_log>>

(***************************************************************************)
(* Paths and files.                                                        *)
(***************************************************************************)
Dirs == {"local", "net", "docs", "cfg"}
Names == {"a", "b"}
NoPath == [dir |-> "", name |-> "", tmp |-> FALSE]
P(d, n) == [dir |-> d, name |-> n, tmp |-> FALSE]
Tmp(p) == [p EXCEPT !.tmp = TRUE]
AllPaths == [dir : Dirs, name : Names, tmp : BOOLEAN]

NoTime == -1
NoSecret == << >>
NoKey == [pw |-> << >>, salt |-> 0]
NoPlain == << >>
NoToken == [key |-> NoKey, plain |-> NoPlain]
NoContent == [kind |-> "absent", salt |-> 0, ct |-> NoToken]
\* A file cut short by a failed write: fewer than 16 bytes.
ShortContent == [kind |-> "short", salt |-> 0, ct |-> NoToken]
\* A file of size zero.
EmptyContent == [kind |-> "empty", salt |-> 0, ct |-> NoToken]
NoFile == [content |-> NoContent, mtime |-> NoTime]
File(c, t) == [content |-> c, mtime |-> t]

Exists(f, p) == p \in AllPaths /\ f[p] # NoFile

Min(a, b) == IF a <= b THEN a ELSE b

(***************************************************************************)
(* utils/auth.py: Encryption.                                              *)
(***************************************************************************)
Salts == 1..NumSalts

\* PBKDF2 over the password's bytes and the salt: injective in both.
generate_key(master_password, salt) == [pw |-> master_password, salt |-> salt]

\* Fernet: the token is bound to the key (authenticated encryption).
encrypt(data, key) == [key |-> key, plain |-> data]

\* None (here NoPlain) when the token does not verify under the key.
decrypt(encrypted_data, key) ==
    IF encrypted_data.key = key /\ key # NoKey THEN encrypted_data.plain ELSE NoPlain

(***************************************************************************)
(* The vault (PasswordDatabase.data) and its JSON text.                    *)
(***************************************************************************)
default_categories == <<"Website", "App", "Email", "Bank", "ID", "Other">>

EmptyData ==
    [categories |-> << >>, passwords |-> << >>, last_modified |-> NoTime,
     version |-> "1.0", totp_secret |-> NoSecret, username |-> ""]

\* json.dumps: the vault as text, field after field.
RecordText(r) ==
    <<r.id, r.title, r.username, r.password, r.url, r.notes, r.category,
      r.created_at, r.updated_at>>

TextRecord(x) ==
    [id |-> x[1], title |-> x[2], username |-> x[3], password |-> x[4],
     url |-> x[5], notes |-> x[6], category |-> x[7], created_at |-> x[8],
     updated_at |-> x[9]]

json_dumps(d) ==
    <<d.categories, [i \in 1..Len(d.passwords) |-> RecordText(d.passwords[i])],
      d.last_modified, d.version, d.totp_secret, d.username>>

json_loads(x) ==
    [categories |-> x[1],
     passwords |-> [i \in 1..Len(x[2]) |-> TextRecord(x[2][i])],
     last_modified |-> x[3], version |-> x[4], totp_secret |-> x[5],
     username |-> x[6]]

\* Texts that are not the JSON text of a vault: the empty text, a text that is
\* not JSON, and the JSON texts of a number, a list and an object without the
\* vault's fields.
EmptyText == <<"">>
OtherTexts == {EmptyText, <<"garbage">>, <<"5">>, <<"[]">>, <<"{}">>}

\* What json.loads makes of a text: "invalid" stands for json.JSONDecodeError.
JsonKind(x) ==
    IF Len(x) = 6 THEN "vault"
    ELSE IF x = <<"5">> THEN "number"
    ELSE IF x = <<"[]">> THEN "list"
    ELSE IF x = <<"{}">> THEN "object"
    ELSE "invalid"

\* json.loads on a text that is JSON.
json_value(x) == IF JsonKind(x) = "vault" THEN json_loads(x) ELSE [json |-> x[1]]

\* str.strip() on a secret.
RECURSIVE LStrip(_)
LStrip(s) == IF s # << >> /\ Head(s) = " " THEN LStrip(Tail(s)) ELSE s

RECURSIVE RStrip(_)
RStrip(s) ==
    IF s # << >> /\ s[Len(s)] = " " THEN RStrip(SubSeq(s, 1, Len(s) - 1)) ELSE s

Strip(s) == RStrip(LStrip(s))

(***************************************************************************)
(* Sequence helpers.                                                       *)
(***************************************************************************)
Range(s) == {s[i] : i \in 1..Len(s)}

\* list.remove(x): the first occurrence only.
RECURSIVE RemoveFirst(_, _)
RemoveFirst(s, x) ==
    IF s = << >> THEN << >>
    ELSE IF Head(s) = x THEN Tail(s)
    ELSE <<Head(s)>> \o RemoveFirst(Tail(s), x)

\* list.index(x): the first position.
IndexOf(s, x) == CHOOSE i \in 1..Len(s) : s[i] = x /\ \A j \in 1..(i - 1) : s[j] # x


(***************************************************************************)
(* utils/config.py: Config.                                                *)
(***************************************************************************)
DefaultCloud ==
    [enabled |-> FALSE, type |-> "local", sync_on_save |-> TRUE,
     sync_on_open |-> TRUE, auto_sync_interval |-> 300,
     conflict_resolution |-> "newer", local_cache_path |-> "",
     remote_path |-> "", network_drive_path |-> "", last_sync_time |-> NoTime,
     sync_enabled |-> TRUE]

DefaultConfig ==
    [database_path |-> NoPath, backup_enabled |-> TRUE, backup_count |-> 5,
     backup_path |-> "", cloud_storage |-> DefaultCloud]

CloudFolderTypes == {"baidu_netdisk", "onedrive", "dropbox"}

\* Config.get_effective_database_path
get_effective_database_path(cfg, e) ==
    LET cloud_config == cfg.cloud_storage
        original_db_path == cfg.database_path
        db_filename == IF original_db_path # NoPath THEN original_db_path.name
                       ELSE "passwords"
        viaCache == IF cloud_config.local_cache_path # ""
                    THEN P(cloud_config.local_cache_path, db_filename)
                    ELSE IF original_db_path = NoPath THEN P("cfg", db_filename)
                    ELSE original_db_path
    IN  IF cloud_config.enabled
        THEN IF cloud_config.type = "network_drive"
             THEN IF cloud_config.network_drive_path # ""
                     /\ cloud_config.network_drive_path \in e.exists
                  THEN P(cloud_config.network_drive_path, db_filename)
                  ELSE viaCache
             ELSE IF cloud_config.type \in CloudFolderTypes
             THEN IF cloud_config.remote_path # ""
                     /\ cloud_config.remote_path \in e.exists
                  THEN P(cloud_config.remote_path, db_filename)
                  ELSE viaCache
             ELSE viaCache
        ELSE IF original_db_path = NoPath THEN P("cfg", db_filename)
        ELSE original_db_path

(***************************************************************************)
(* utils/cloud_sync.py: the path helpers of CloudSyncManager.              *)
(***************************************************************************)
is_cloud_enabled(cfg) == cfg.cloud_storage.enabled

\* CloudSyncManager._get_database_filename
get_database_filename(cfg) ==
    IF cfg.database_path # NoPath THEN cfg.database_path.name ELSE "passwords"

\* CloudSyncManager.get_remote_path: NoPath stands for None.
get_remote_path(cfg) ==
    LET storage_type == cfg.cloud_storage.type
        db_filename == get_database_filename(cfg)
    IN  IF storage_type = "network_drive"
        THEN IF cfg.cloud_storage.network_drive_path # ""
             THEN P(cfg.cloud_storage.network_drive_path, db_filename)
             ELSE NoPath
        ELSE IF storage_type \in CloudFolderTypes
        THEN IF cfg.cloud_storage.remote_path # ""
             THEN P(cfg.cloud_storage.remote_path, db_filename)
             ELSE NoPath
        ELSE NoPath

\* CloudSyncManager.check_remote_accessibility
check_remote_accessibility(cfg, e) ==
    LET remote_path == get_remote_path(cfg)
    IN  /\ remote_path # NoPath
        /\ remote_path.dir \in e.exists
        /\ remote_path.dir \in e.writable

(***************************************************************************)
(* database/password_db.py: the PasswordDatabase object.                   *)
(***************************************************************************)
\* PasswordDatabase.__init__
InitStore ==
    [db_path |-> NoPath, key |-> NoKey, salt |-> 0, data |-> EmptyData,
     default_categories |-> default_categories,
     aliased |-> FALSE,      \* data["categories"] is the default_categories list itself
     last_error |-> "None"]

\* The categories list is replaced in place: when create() has bound it to
\* self.default_categories, that list changes with it.
WithCategories(st, cats) ==
    [st EXCEPT !.data.categories = cats,
               !.default_categories = IF st.aliased THEN cats ELSE @]

\* A save() that leaves the salt out of the file: the round trip must notice.
ContainerWithoutSalt(st) ==
    [kind |-> "container", salt |-> 0,
     ct |-> encrypt(json_dumps(st.data), st.key)]

\* What save() writes: salt + Fernet token of the JSON text.
Container(st) ==
    [kind |-> "container", salt |-> st.salt,
     ct |-> encrypt(json_dumps(st.data), st.key)]

\* The YYYYMMDD_HHMMSS timestamp of _create_backup: whole seconds.
Timestamp(t) == t \div TicksPerSecond

\* PasswordDatabase._cleanup_backups: sort by mtime, newest first, keep the first
\* backup_count; os.listdir's order decides among equal mtimes.
cleanup_backups(files, backup_count) ==
    {kept \in SUBSET files :
        /\ Cardinality(kept) = Min(backup_count, Cardinality(files))
        /\ \A a \in kept, b \in files \ kept : a.mtime >= b.mtime}

\* PasswordDatabase._create_backup: the possible contents of the backup
\* directory of db_path afterwards.
create_backup(st, cfg, f, bk) ==
    IF ~cfg.backup_enabled THEN {bk}
    ELSE LET dir == st.db_path.dir
             backup_file == [base |-> st.db_path.name, stamp |-> Timestamp(now),
                             content |-> f[st.db_path].content,
                             mtime |-> f[st.db_path].mtime]   \* copy2 keeps the mtime
             copied == {b \in bk[dir] : ~(b.base = backup_file.base
                                          /\ b.stamp = backup_file.stamp)}
                       \cup {backup_file}
         IN  {[bk EXCEPT ![dir] = kept] : kept \in cleanup_backups(copied, cfg.backup_count)}

\* Whether the write of save() may fail part-way in this environment.
WriteResults(e) == IF "write" \in e.faults THEN {"ok", "cut"} ELSE {"ok"}

\* PasswordDatabase.save up to and including the write of the container (lines
\* 230-249): the possible outcomes [ok, store, fs, backups].
save_local(st, cfg, f, bk, e) ==
    LET st1 == [st EXCEPT !.data.last_modified = now]
        failed == [ok |-> FALSE, store |-> st1, fs |-> f, backups |-> bk]
    IN  IF st.key = NoKey \/ st.db_path = NoPath THEN {failed}
        ELSE LET bks == IF Exists(f, st.db_path) THEN create_backup(st1, cfg, f, bk)
                        ELSE {bk}
             IN  IF st.db_path.dir \notin e.exists \/ st.db_path.dir \notin e.writable
                 THEN {[failed EXCEPT !.backups = b] : b \in bks}
                 ELSE {[ok |-> w = "ok", store |-> st1,
                        fs |-> [f EXCEPT ![st.db_path] =
                                  IF w = "ok" THEN File(Container(st1), now)
                                  ELSE File(ShortContent, now)],
                        backups |-> b] : w \in WriteResults(e), b \in bks}


\* A create() that, when the copy fails, leaves the configuration pointing at the
\* replication target while the store keeps the caller's path.
create_tail_switching_config(st, cfg, f, e, db_path) ==
    IF is_cloud_enabled(cfg)
    THEN LET cfg1 == [cfg EXCEPT !.database_path = db_path]
             effective_path == get_effective_database_path(cfg1, e)
             kept == [store |-> st, fs |-> f, copied |-> FALSE,
                      config |-> [cfg1 EXCEPT !.database_path = effective_path]]
             copied == [store |-> [st EXCEPT !.db_path = effective_path],
                        fs |-> [f EXCEPT ![effective_path] = f[st.db_path]],
                        copied |-> TRUE,
                        config |-> [cfg1 EXCEPT !.database_path = effective_path]]
         IN  IF effective_path # st.db_path /\ Exists(f, st.db_path)
             THEN IF effective_path.dir \in e.exists /\ effective_path.dir \in e.writable
                  THEN {copied} \cup (IF "remote" \in e.faults THEN {kept} ELSE {})
                  ELSE {kept}
             ELSE {kept}
    ELSE {[store |-> st, fs |-> f, copied |-> FALSE,
           config |-> [cfg EXCEPT !.database_path = db_path]]}

\* PasswordDatabase.create, lines 83-110: what follows a successful save().  The
\* possible outcomes [store, config, fs]; the copy to the replication target may
\* fail.
create_tail(st, cfg, f, e, db_path) ==
    IF is_cloud_enabled(cfg)
    THEN LET cfg1 == [cfg EXCEPT !.database_path = db_path]
             effective_path == get_effective_database_path(cfg1, e)
             kept == [store |-> st, fs |-> f, copied |-> FALSE,
                      config |-> [cfg1 EXCEPT !.database_path = st.db_path]]
             copied == [store |-> [st EXCEPT !.db_path = effective_path],
                        fs |-> [f EXCEPT ![effective_path] = f[st.db_path]],
                        copied |-> TRUE,
                        config |-> [cfg1 EXCEPT !.database_path = effective_path]]
         IN  IF effective_path # st.db_path /\ Exists(f, st.db_path)
             THEN IF effective_path.dir \in e.exists /\ effective_path.dir \in e.writable
                  THEN {copied} \cup (IF "remote" \in e.faults THEN {kept} ELSE {})
                  ELSE {kept}
             ELSE {kept}
    ELSE {[store |-> st, fs |-> f, copied |-> FALSE,
           config |-> [cfg EXCEPT !.database_path = db_path]]}

\* PasswordDatabase.create, lines 44-77: the store and the configuration when
\* save() is called.
create_head(st, cfg, db_path, master_password, totp_secret, username, salt) ==
    [store |-> [st EXCEPT !.db_path = db_path,
                          !.key = generate_key(master_password, salt),
                          !.salt = salt,
                          !.aliased = TRUE,
                          !.data = [categories |-> st.default_categories,
                                    passwords |-> << >>, last_modified |-> now,
                                    version |-> "1.0", totp_secret |-> totp_secret,
                                    username |-> username]],
     config |-> IF is_cloud_enabled(cfg) THEN [cfg EXCEPT !.database_path = db_path]
                ELSE cfg]

\* A path selection that prefers the path the caller gave.
open_path_caller_first(cfg, f, e, db_path) ==
    IF is_cloud_enabled(cfg)
    THEN LET cloud_db_path == get_effective_database_path(cfg, e)
         IN  IF Exists(f, db_path) THEN db_path
             ELSE IF Exists(f, cloud_db_path) THEN cloud_db_path
             ELSE NoPath
    ELSE db_path

\* PasswordDatabase.open, lines 129-144: the path open() settles on once the
\* optional pull is done; NoPath when neither candidate exists.
open_path(cfg, f, e, db_path) ==
    IF is_cloud_enabled(cfg)
    THEN LET cloud_db_path == get_effective_database_path(cfg, e)
         IN  IF Exists(f, cloud_db_path) THEN cloud_db_path
             ELSE IF Exists(f, db_path) THEN db_path
             ELSE NoPath
    ELSE db_path

\* PasswordDatabase.open, lines 129-226: [ok, store].
open_body(st, cfg, f, e, db_path, master_password) ==
    LET st0 == [st EXCEPT !.last_error = "None"]
        chosen == open_path(cfg, f, e, db_path)
        Fail(s, err) == [ok |-> FALSE, store |-> [s EXCEPT !.last_error = err]]
    IN  IF chosen = NoPath THEN Fail(st0, "FILE_NOT_FOUND")
        ELSE LET st1 == [st0 EXCEPT !.db_path = chosen]
             IN  IF ~Exists(f, chosen) THEN Fail(st1, "FILE_NOT_FOUND")
                 ELSE IF f[chosen].content.kind \in {"short", "empty"}
                 THEN Fail(st1, "DATA_CORRUPTED")
                 ELSE LET salt == f[chosen].content.salt
                          encrypted_content == f[chosen].content.ct
                          st2 == [st1 EXCEPT !.key = generate_key(master_password, salt),
                                             !.salt = salt]
                          decrypted_data == decrypt(encrypted_content, st2.key)
                      IN  \* "if not decrypted_data": None and the empty text alike
                          IF decrypted_data = NoPlain \/ decrypted_data = EmptyText
                          THEN Fail(st2, "INVALID_KEY")
                          ELSE IF JsonKind(decrypted_data) = "invalid"
                          THEN Fail(st2, "DATA_CORRUPTED")       \* json.JSONDecodeError
                          ELSE LET st3 == [st2 EXCEPT !.data = json_value(decrypted_data),
                                                      !.aliased = FALSE]
                               IN  IF JsonKind(decrypted_data) = "number"
                                   THEN \* "totp_secret" in 5: TypeError, caught at line 222
                                        Fail(st3, "UNKNOWN_ERROR")
                                   ELSE IF JsonKind(decrypted_data) # "vault"
                                   THEN \* a list or an object without "totp_secret"
                                        [ok |-> TRUE, store |-> st3]
                                   ELSE IF st3.data.totp_secret # NoSecret
                                      /\ Strip(master_password) # Strip(st3.data.totp_secret)
                                   THEN Fail(st3, "INVALID_KEY")
                                   ELSE [ok |-> TRUE, store |-> st3]

(***************************************************************************)
(* The mutations of the vault, each followed by save().                    *)
(***************************************************************************)
NoRecord ==
    [id |-> NoTime, title |-> "", username |-> "", password |-> "", url |-> "",
     notes |-> "", category |-> "", created_at |-> NoTime, updated_at |-> NoTime]

\* An add_password that takes the first identifier no record of the vault has.
add_password_fresh_id(st, password_data) ==
    LET used == {st.data.passwords[k].id : k \in 1..Len(st.data.passwords)}
        fresh == CHOOSE n \in now..(now + Len(st.data.passwords)) : n \notin used
        rec == [password_data EXCEPT !.id = fresh, !.created_at = now,
                                     !.updated_at = now]
    IN  [st EXCEPT !.data.passwords = Append(@, rec)]

\* PasswordDatabase.add_password, lines 314-321
add_password(st, password_data) ==
    LET rec == [password_data EXCEPT !.id = now, !.created_at = now,
                                     !.updated_at = now]
    IN  [st EXCEPT !.data.passwords = Append(@, rec)]

\* PasswordDatabase.add_category, lines 398-399
add_category(st, category) ==
    IF category \notin Range(st.data.categories)
    THEN WithCategories(st, Append(st.data.categories, category))
    ELSE st

\* A delete_category that moves every record to the fallback category.
delete_category_moving_all(st, category) ==
    LET removed == WithCategories(st, RemoveFirst(st.data.categories, category))
    IN  [removed EXCEPT !.data.passwords =
            [i \in 1..Len(@) |-> [@[i] EXCEPT !.category = "Other"]]]

\* PasswordDatabase.delete_category, lines 405-412
delete_category(st, category) ==
    LET removed == WithCategories(st, RemoveFirst(st.data.categories, category))
    IN  [removed EXCEPT !.data.passwords =
            [i \in 1..Len(@) |-> IF @[i].category = category
                                 THEN [@[i] EXCEPT !.category = "Other"]
                                 ELSE @[i]]]

\* A rename_category that drops the old name and appends the new one.
rename_category_appending(st, old_name, new_name) ==
    LET renamed == WithCategories(st, Append(RemoveFirst(st.data.categories, old_name),
                                             new_name))
    IN  [renamed EXCEPT !.data.passwords =
            [i \in 1..Len(@) |-> IF @[i].category = old_name
                                 THEN [@[i] EXCEPT !.category = new_name]
                                 ELSE @[i]]]

\* PasswordDatabase.rename_category, lines 426-432
rename_category(st, old_name, new_name) ==
    LET category_index == IndexOf(st.data.categories, old_name)
        renamed == WithCategories(st, [st.data.categories EXCEPT
                                          ![category_index] = new_name])
    IN  [renamed EXCEPT !.data.passwords =
            [i \in 1..Len(@) |-> IF @[i].category = old_name
                                 THEN [@[i] EXCEPT !.category = new_name]
                                 ELSE @[i]]]

\* PasswordDatabase.update_password, lines 326-341: the first record with the
\* id is replaced; id and created_at are kept, updated_at is refreshed.
update_password(st, password_id, password_data) ==
    LET i == CHOOSE k \in 1..Len(st.data.passwords) :
                 /\ st.data.passwords[k].id = password_id
                 /\ \A m \in 1..(k - 1) : st.data.passwords[m].id # password_id
    IN  [st EXCEPT !.data.passwords[i] =
            [password_data EXCEPT !.id = password_id,
                                  !.created_at = st.data.passwords[i].created_at,
                                  !.updated_at = now]]

\* PasswordDatabase.delete_password, lines 343-353: the first record with the id
\* is deleted.
delete_password(st, password_id) ==
    LET pwds == st.data.passwords
        i == CHOOSE k \in 1..Len(pwds) :
                 /\ pwds[k].id = password_id
                 /\ \A m \in 1..(k - 1) : pwds[m].id # password_id
    IN  [st EXCEPT !.data.passwords =
            SubSeq(pwds, 1, i - 1) \o SubSeq(pwds, i + 1, Len(pwds))]

\* A category merge that tests each imported name against the names the vault
\* had before the merge, as the record merge does with existing_ids.
MergeCategoriesFromSnapshot(cats, imported) ==
    cats \o SelectSeq(imported, LAMBDA c : c \notin Range(cats))

\* PasswordDatabase._merge_data, lines 492-495: the imported categories that
\* are not in the list yet are appended, one after the other.
RECURSIVE MergeCategories(_, _)
MergeCategories(cats, imported) ==
    IF imported = << >> THEN cats
    ELSE MergeCategories(IF Head(imported) \in Range(cats) THEN cats
                         ELSE Append(cats, Head(imported)),
                         Tail(imported))

\* A merge in which an imported record of the same age replaces the existing one.
RECURSIVE MergePasswordsOrEqual(_, _, _)
MergePasswordsOrEqual(pwds, imported, existing_ids) ==
    IF imported = << >> THEN pwds
    ELSE LET pwd == Head(imported)
             i == CHOOSE k \in 1..Len(pwds) :
                      /\ pwds[k].id = pwd.id
                      /\ \A m \in 1..(k - 1) : pwds[m].id # pwd.id
         IN  MergePasswordsOrEqual(
                 IF pwd.id \notin existing_ids THEN Append(pwds, pwd)
                 ELSE IF pwd.updated_at >= pwds[i].updated_at
                      THEN [pwds EXCEPT ![i] = pwd]
                      ELSE pwds,
                 Tail(imported), existing_ids)

\* PasswordDatabase._merge_data, lines 497-514: existing_ids is taken once, before
\* the loop; a record with a new id is appended, one with a known id replaces
\* the first record with that id when its updated_at is later.
RECURSIVE MergePasswords(_, _, _)
MergePasswords(pwds, imported, existing_ids) ==
    IF imported = << >> THEN pwds
    ELSE LET pwd == Head(imported)
             i == CHOOSE k \in 1..Len(pwds) :
                      /\ pwds[k].id = pwd.id
                      /\ \A m \in 1..(k - 1) : pwds[m].id # pwd.id
         IN  MergePasswords(
                 IF pwd.id \notin existing_ids THEN Append(pwds, pwd)
                 ELSE IF pwd.updated_at > pwds[i].updated_at
                      THEN [pwds EXCEPT ![i] = pwd]
                      ELSE pwds,
                 Tail(imported), existing_ids)

\* PasswordDatabase._merge_data, lines 490-514
merge_data(st, imported_data) ==
    LET merged == WithCategories(st, MergeCategories(st.data.categories,
                                                     imported_data.categories))
    IN  [merged EXCEPT !.data.passwords =
            MergePasswords(@, imported_data.passwords,
                           {@[k].id : k \in 1..Len(@)})]

\* PasswordDatabase.export_data, lines 436-456: the file an export of the vault
\* data under password writes.
export_data(data, password, export_salt) ==
    [kind |-> "container", salt |-> export_salt,
     ct |-> encrypt(json_dumps(data), generate_key(password, export_salt))]

\* PasswordDatabase.import_data, lines 460-474: the text the import file holds
\* under password; NoPlain when it cannot be read or does not decrypt.
import_text(f, import_path, password) ==
    IF ~Exists(f, import_path) \/ f[import_path].content.kind # "container"
    THEN NoPlain
    ELSE decrypt(f[import_path].content.ct,
                 generate_key(password, f[import_path].content.salt))


(***************************************************************************)
(* Threads.  "ui" is the foreground thread, which runs the store's calls   *)
(* and MainWindow.manual_sync; "timer" runs the periodic tick.  "db" is    *)
(* the CloudSyncManager of the PasswordDatabase (password_db.py line 42),  *)
(* "win" the one MainWindow.setup_cloud_sync builds (main_window.py line   *)
(* 1837).  A thread inside sync_to_remote / sync_from_remote is at "push", *)
(* "push_copy", "push_replace", "push_rename", "pull" or "pull_copy".      *)
(***************************************************************************)
Threads == {"ui", "timer"}
Managers == {"db", "win"}
Free == "free"

\* The arguments of a call: a path and a secret (create, open), category names.
NoArgs ==
    [path |-> NoPath, pw |-> NoSecret, cat |-> "", cat2 |-> "",
     before |-> << >>,       \* the records of the vault when the call was made
     before_categories |-> << >>,    \* and its categories
     copied |-> FALSE]       \* create() has copied the container to the target
PathArgs(db_path, master_password) ==
    [NoArgs EXCEPT !.path = db_path, !.pw = master_password]
CatArgs(c, c2) == [NoArgs EXCEPT !.cat = c, !.cat2 = c2]
ImportArgs(import_path, password, st) ==
    [NoArgs EXCEPT !.path = import_path, !.pw = password,
                   !.before = st.data.passwords,
                   !.before_categories = st.data.categories]

IdleThread ==
    [pc |-> "idle", mgr |-> "db", lpath |-> NoPath, rpath |-> NoPath,
     after |-> "none",       \* what the sync call returns into
     op |-> "none",          \* the store call in progress
     args |-> NoArgs,        \* its arguments
     pre |-> NoFile,         \* the remote target when the push began
     staged |-> FALSE]       \* the push has written <target>.tmp

NoTimer == [handle |-> "None", orphans |-> 0]

\* CloudSyncManager.stop_auto_sync: cancel() stops a timer that has not fired.
stop_auto_sync(tm) == [tm EXCEPT !.handle = "None"]

\* CloudSyncManager.start_auto_sync
start_auto_sync(tm, cfg) ==
    IF is_cloud_enabled(cfg) /\ cfg.cloud_storage.auto_sync_interval > 0
    THEN [stop_auto_sync(tm) EXCEPT !.handle = "pending"]
    ELSE tm

\* An end of auto_sync that sets no new timer.
rearm_never(tm) == [tm EXCEPT !.handle = "None"]

\* The end of auto_sync (lines 283-285): a new timer replaces the attribute; a
\* pending timer it referred to keeps running unreferenced.
rearm(tm) ==
    [handle |-> "pending",
     orphans |-> IF tm.handle = "pending" THEN tm.orphans + 1 ELSE tm.orphans]

\* A save() that hands on what the push returned.
SaveReturnsPush(push_ok) == push_ok

\* What save() returns once the container is written, given what the push
\* returned (lines 252-255).
SaveReturn(push_ok) == TRUE

\* No sync call has returned yet.
NoSyncLog == [thread |-> "none", kind |-> "none", ok |-> TRUE, copied |-> FALSE]

NoResult == [op |-> "none", ok |-> TRUE, pushed |-> "none", args |-> NoArgs]

NoHist ==
    [phase |-> "none",       \* "created": create(A, S, S) and successful adds only
     created |-> [path |-> NoPath, pw |-> NoSecret, totp |-> NoSecret],
     added |-> << >>,        \* the records of the successful add_password calls
     saves |-> 0,            \* successful save() calls in a row since the last other call
     args |-> NoArgs]        \* of the last open()

\* The history after call op returned ok with the store st.
Record(h, op, ok, st, a) ==
    IF op = "create"
    THEN [h EXCEPT !.phase = IF ok THEN "created" ELSE "none",
                   !.created = [path |-> a.path, pw |-> a.pw,
                                totp |-> st.data.totp_secret],
                   !.added = << >>, !.saves = 0]
    ELSE IF op = "add_password"
    THEN IF ok /\ h.phase = "created"
         THEN [h EXCEPT !.added = Append(@, st.data.passwords[Len(st.data.passwords)]),
                        !.saves = 0]
         ELSE [h EXCEPT !.phase = "none", !.saves = 0]
    ELSE IF op = "close"
    THEN [h EXCEPT !.phase = IF @ = "created" THEN "closed" ELSE "none", !.saves = 0]
    ELSE IF op = "open"
    THEN [h EXCEPT !.phase = IF @ = "closed" /\ a.path = h.created.path
                                /\ a.pw = h.created.pw
                             THEN "reopened" ELSE "none",
                   !.args = a, !.saves = 0]
    ELSE IF op = "manual_sync" THEN h
    ELSE IF op = "save"
    THEN [h EXCEPT !.phase = "none", !.saves = IF ok THEN @ + 1 ELSE 0]
    ELSE [h EXCEPT !.phase = "none", !.saves = 0]

\* The call op of the UI thread returns ok.
Finish(op, ok, pushed, st, cfg, f, tm, a) ==
    /\ store' = st
    /\ config' = cfg
    /\ fs' = f
    /\ auto_sync_timer' = tm
    /\ result' = [op |-> op, ok |-> ok, pushed |-> pushed, args |-> a]
    /\ th' = [th EXCEPT !["ui"] = IdleThread]
    /\ session' = IF op \in {"create", "open"} /\ ok THEN "open"
                  ELSE IF op = "close" THEN "closed"
                  ELSE session
    /\ hist' = Record(hist, op, ok, st, a)

\* save() returns into the call op that made it; create() goes on with lines
\* 83-110.
SaveReturned(op, ok, pushed, st, cfg, f, a) ==
    \E c \in (IF op = "create" /\ ok THEN create_tail(st, cfg, f, env, a.path)
              ELSE {[store |-> st, config |-> cfg, fs |-> f, copied |-> FALSE]}) :
        Finish(op, ok, pushed, c.store, c.config, c.fs, auto_sync_timer,
               [a EXCEPT !.copied = c.copied])

\* open() returns o = [ok, store]; a successful open starts the timer (line 208).
FinishOpen(o, cfg, f, a) ==
    Finish("open", o.ok, "none", o.store, cfg, f,
           IF o.ok THEN [auto_sync_timer EXCEPT !["db"] = start_auto_sync(@, cfg)]
           ELSE auto_sync_timer,
           a)

\* PasswordDatabase.save on the store st, called by op on the UI thread: the
\* container is written in this step; the push, when configured, follows in
\* steps of its own, as it waits for the lock.
Save(op, st, cfg, a) ==
    \E o \in save_local(st, cfg, fs, backups, env) :
        /\ backups' = o.backups
        /\ IF o.ok /\ is_cloud_enabled(cfg) /\ cfg.cloud_storage.sync_on_save
           THEN /\ th' = [th EXCEPT !["ui"] =
                            [IdleThread EXCEPT !.pc = "push", !.mgr = "db",
                                               !.lpath = o.store.db_path,
                                               !.after = "save", !.op = op,
                                               !.args = a]]
                /\ store' = o.store
                /\ fs' = o.fs
                /\ config' = cfg
                /\ UNCHANGED <<result, session, hist, auto_sync_timer>>
           ELSE SaveReturned(op, o.ok, "none", o.store, cfg, o.fs, a)


(***************************************************************************)
(* utils/cloud_sync.py: sync_to_remote and sync_from_remote, step by step. *)
(***************************************************************************)
\* A sync call of thread t starts: it waits for the manager's lock at pc.
Call(t, pc, mgr, lpath, after, op, a) ==
    [IdleThread EXCEPT !.pc = pc, !.mgr = mgr, !.lpath = lpath, !.after = after,
                       !.op = op, !.args = a]

\* sync_to_remote / sync_from_remote of thread t returns ok, with the file system
\* f and the configuration cfg: the lock is released (when held is TRUE) and the
\* caller goes on.
SyncReturn(t, ok, held, f, cfg) ==
    LET me == th[t]
        pushed == IF ok THEN "ok" ELSE "failed"
    IN  /\ sync_log' = [thread |-> t,
                         kind |-> IF me.pc \in {"pull", "pull_copy"} THEN "pull"
                                  ELSE "push",
                         ok |-> ok,
                         copied |-> ok /\ me.pc \in {"push_rename", "pull_copy"}]
        /\ sync_lock' = IF held THEN [sync_lock EXCEPT ![me.mgr] = Free] ELSE sync_lock
        /\ is_syncing' = IF held THEN [is_syncing EXCEPT ![me.mgr] = FALSE] ELSE is_syncing
        /\ IF \/ me.after = "tick_pull"
              \/ me.after = "mgr_pull" /\ ok /\ cfg.cloud_storage.sync_on_save
           THEN \* auto_sync, lines 279-280, and CloudSyncManager.manual_sync, lines
                \* 305-313: the push follows the pull
                /\ th' = [th EXCEPT ![t] =
                            Call(t, "push", me.mgr, NoPath,
                                 IF me.after = "tick_pull" THEN "tick_push" ELSE "mgr_push",
                                 me.op, NoArgs)]
                /\ fs' = f
                /\ config' = cfg
                /\ UNCHANGED <<store, result, session, hist, auto_sync_timer>>
           ELSE IF me.after = "tick_push"
           THEN \* auto_sync sets the next timer, lines 283-285
                /\ th' = [th EXCEPT ![t] = IdleThread]
                /\ auto_sync_timer' = [auto_sync_timer EXCEPT ![me.mgr] = rearm(@)]
                /\ fs' = f
                /\ config' = cfg
                /\ UNCHANGED <<store, result, session, hist>>
           ELSE IF me.after = "save"
           THEN \* save() ignores what the push returned
                SaveReturned(me.op, SaveReturn(ok), pushed, store, cfg, f, me.args)
           ELSE IF me.after = "open"
           THEN \* PasswordDatabase.open after its pull, lines 129-210
                FinishOpen(open_body(store, cfg, f, env, me.args.path, me.args.pw),
                           cfg, f, me.args)
           ELSE \* PasswordDatabase.manual_sync, lines 529-533, and
                \* CloudSyncManager.manual_sync, lines 305-313
                Finish("manual_sync", ok,
                       IF me.after = "mgr_pull" THEN "none" ELSE pushed,
                       store, cfg, f, auto_sync_timer, NoArgs)

\* A step inside a sync call that does not return.
SyncStep(t, thr, f) ==
    /\ th' = [th EXCEPT ![t] = thr]
    /\ fs' = f
    /\ UNCHANGED <<config, store, result, session, hist, auto_sync_timer, sync_log>>

\* The outcomes of an I/O operation on the remote side in this environment.
RemoteIO(e) == IF "remote" \in e.faults THEN {TRUE, FALSE} ELSE {TRUE}

\* sync_to_remote, lines 92-103: the local file to push.
push_source(cfg, f, e, local_file_path) ==
    IF local_file_path # NoPath THEN local_file_path
    ELSE IF cfg.database_path # NoPath /\ Exists(f, cfg.database_path)
    THEN cfg.database_path
    ELSE get_effective_database_path(cfg, e)

\* sync_to_remote, lines 85-123: the lock is taken and the paths are checked.
PushBegin(t) ==
    /\ th[t].pc = "push"
    /\ UNCHANGED <<now, env, backups>>
    /\ LET local_file_path == push_source(config, fs, env, th[t].lpath)
           remote_path == get_remote_path(config)
           enabled == is_cloud_enabled(config)
           gives_up == \/ remote_path = NoPath
                       \/ ~check_remote_accessibility(config, env)
                       \/ ~Exists(fs, local_file_path)
       IN  /\ enabled => sync_lock[th[t].mgr] = Free
           /\ IF enabled /\ ~gives_up
              THEN /\ sync_lock' = [sync_lock EXCEPT ![th[t].mgr] = t]
                   /\ is_syncing' = [is_syncing EXCEPT ![th[t].mgr] = TRUE]
                   /\ SyncStep(t, [th[t] EXCEPT !.pc = "push_copy",
                                                !.lpath = local_file_path,
                                                !.rpath = remote_path,
                                                !.pre = fs[remote_path]], fs)
              ELSE SyncReturn(t, ~enabled, FALSE, fs, config)

\* sync_to_remote, lines 127-133: shutil.copy2(local_file_path, temp_path).
PushCopy(t) ==
    /\ th[t].pc = "push_copy"
    /\ UNCHANGED <<now, env, backups>>
    /\ LET temp_path == Tmp(th[t].rpath)
       IN  \E io \in RemoteIO(env) :
              IF io /\ Exists(fs, th[t].lpath)
              THEN /\ UNCHANGED <<sync_lock, is_syncing>>
                   /\ SyncStep(t, [th[t] EXCEPT !.pc = "push_replace", !.staged = TRUE],
                               [fs EXCEPT ![temp_path] = fs[th[t].lpath]])
              ELSE \* the copy failed: the temp file may be left cut short
                   \E left \in {fs[temp_path], File(ShortContent, now)} :
                      SyncReturn(t, FALSE, TRUE, [fs EXCEPT ![temp_path] = left], config)

\* sync_to_remote, lines 137-139: os.remove(remote_path) when it exists.
PushReplace(t) ==
    /\ th[t].pc = "push_replace"
    /\ UNCHANGED <<now, env, backups>>
    /\ LET temp_path == Tmp(th[t].rpath)
           outcomes == IF ~Exists(fs, temp_path) THEN {FALSE}
                       ELSE IF Exists(fs, th[t].rpath) THEN RemoteIO(env)
                       ELSE {TRUE}
       IN  \E io \in outcomes :
              IF io
              THEN /\ UNCHANGED <<sync_lock, is_syncing>>
                   /\ SyncStep(t, [th[t] EXCEPT !.pc = "push_rename"],
                               [fs EXCEPT ![th[t].rpath] = NoFile])
              ELSE SyncReturn(t, FALSE, TRUE, fs, config)

\* sync_to_remote, lines 140-153: os.rename(temp_path, remote_path), then the
\* sync time.  The rename fails when the temp file is gone; onto an existing
\* file it fails on Windows and replaces it elsewhere.
PushRename(t) ==
    /\ th[t].pc = "push_rename"
    /\ UNCHANGED <<now, env, backups>>
    /\ LET temp_path == Tmp(th[t].rpath)
           outcomes == IF ~Exists(fs, temp_path) THEN {FALSE}
                       ELSE IF Exists(fs, th[t].rpath) THEN {TRUE, FALSE}
                       ELSE RemoteIO(env)
       IN  \E io \in outcomes :
              SyncReturn(t, io, TRUE,
                         IF io THEN [fs EXCEPT ![th[t].rpath] = fs[temp_path],
                                               ![temp_path] = NoFile]
                         ELSE fs,
                         IF io THEN [config EXCEPT !.cloud_storage.last_sync_time = now]
                         ELSE config)

\* sync_from_remote, lines 173-197: the local file to pull onto.
pull_target(cfg, local_file_path) ==
    LET db_filename == get_database_filename(cfg)
        original_db_path == cfg.database_path
        remote_path == get_remote_path(cfg)
    IN  IF local_file_path # NoPath THEN local_file_path
        ELSE IF original_db_path # NoPath /\ remote_path # NoPath
                /\ original_db_path = remote_path
        THEN P("docs", db_filename)
        ELSE IF original_db_path # NoPath THEN original_db_path
        ELSE P("docs", db_filename)

\* A policy "newer" that keeps the local file only when it is strictly newer.
keeps_local_when_strictly_newer(cfg, f, local_file_path, remote_path) ==
    /\ Exists(f, local_file_path)
    /\ \/ /\ cfg.cloud_storage.conflict_resolution = "newer"
          /\ f[local_file_path].mtime > f[remote_path].mtime
       \/ cfg.cloud_storage.conflict_resolution = "local"

\* sync_from_remote, lines 214-228: whether the conflict policy keeps the local
\* file.
keeps_local(cfg, f, local_file_path, remote_path) ==
    /\ Exists(f, local_file_path)
    /\ \/ /\ cfg.cloud_storage.conflict_resolution = "newer"
          /\ f[local_file_path].mtime >= f[remote_path].mtime
       \/ cfg.cloud_storage.conflict_resolution = "local"

\* sync_from_remote, lines 166-237: the lock is taken, the paths are resolved and
\* the conflict policy is applied.
PullBegin(t) ==
    /\ th[t].pc = "pull"
    /\ UNCHANGED <<now, env, backups>>
    /\ LET local_file_path == pull_target(config, th[t].lpath)
           remote_path == get_remote_path(config)
           enabled == is_cloud_enabled(config)
           \* "copy", or what the call returns without copying
           decision == IF ~enabled THEN "true"
                       ELSE IF remote_path = NoPath THEN "false"
                       ELSE IF ~Exists(fs, remote_path) THEN "true"
                       ELSE IF keeps_local(config, fs, local_file_path, remote_path)
                       THEN "true"
                       ELSE IF local_file_path.dir \notin env.exists THEN "false"
                       ELSE "copy"
       IN  /\ enabled => sync_lock[th[t].mgr] = Free
           /\ IF decision = "copy"
              THEN /\ sync_lock' = [sync_lock EXCEPT ![th[t].mgr] = t]
                   /\ is_syncing' = [is_syncing EXCEPT ![th[t].mgr] = TRUE]
                   /\ SyncStep(t, [th[t] EXCEPT !.pc = "pull_copy",
                                                !.lpath = local_file_path,
                                                !.rpath = remote_path], fs)
              ELSE SyncReturn(t, decision = "true", FALSE, fs, config)

\* A pull that records the sync time whether or not the copy succeeded.
PullCopyStamping(t) ==
    /\ th[t].pc = "pull_copy"
    /\ UNCHANGED <<now, env, backups>>
    /\ LET local_file_path == th[t].lpath
           remote_path == th[t].rpath
           can == /\ Exists(fs, remote_path)
                  /\ local_file_path # remote_path
                  /\ local_file_path.dir \in env.writable
           done == [ok |-> TRUE, file |-> fs[remote_path]]
           failed == {[ok |-> FALSE, file |-> left] :
                        left \in {fs[local_file_path]}
                                 \cup (IF can THEN {File(ShortContent, now)} ELSE {})}
       IN  \E o \in (IF can THEN {done} ELSE {})
                     \cup (IF can /\ RemoteIO(env) = {TRUE} THEN {} ELSE failed) :
              SyncReturn(t, o.ok, TRUE,
                         [fs EXCEPT ![local_file_path] = o.file],
                         [config EXCEPT !.cloud_storage.last_sync_time = now])

\* sync_from_remote, lines 240-260: shutil.copy2(remote_path, local_file_path),
\* written in place; then the sync time.
PullCopy(t) ==
    /\ th[t].pc = "pull_copy"
    /\ UNCHANGED <<now, env, backups>>
    /\ LET local_file_path == th[t].lpath
           remote_path == th[t].rpath
           can == /\ Exists(fs, remote_path)
                  /\ local_file_path # remote_path      \* shutil.SameFileError
                  /\ local_file_path.dir \in env.writable
           done == [ok |-> TRUE, file |-> fs[remote_path]]
           \* a copy that fails may leave the local file cut short
           failed == {[ok |-> FALSE, file |-> left] :
                        left \in {fs[local_file_path]}
                                 \cup (IF can THEN {File(ShortContent, now)} ELSE {})}
       IN  \E o \in (IF can THEN {done} ELSE {})
                     \cup (IF can /\ RemoteIO(env) = {TRUE} THEN {} ELSE failed) :
              SyncReturn(t, o.ok, TRUE,
                         [fs EXCEPT ![local_file_path] = o.file],
                         IF o.ok THEN [config EXCEPT !.cloud_storage.last_sync_time = now]
                         ELSE config)


(***************************************************************************)
(* The calls, and what they are given.                                     *)
(***************************************************************************)
Secrets == {<<"S">>, <<"T">>}
Padded == <<"S", " ">>
CategoryNames == {"Bank", "Other", "Work"}
Payloads ==
    {[NoRecord EXCEPT !.title = "Example", !.username = "u", !.password = "p",
                      !.url = "https://example.com"],
     [NoRecord EXCEPT !.title = "Mail", !.username = "v", !.password = "q",
                      !.notes = "n"]}

UiIdle == th["ui"].pc = "idle"

\* The clock advances.
Tick ==
    /\ now < MaxTime
    /\ now' = now + 1
    /\ UNCHANGED <<fs, backups, env, config, store, session, sync_lock, is_syncing,
                   auto_sync_timer, th, result, hist, sync_log>>

\* PasswordDatabase(config): a new store object (login_window.py lines 32, 823).
NewStore ==
    /\ UiIdle
    /\ th["timer"].pc = "idle"
    /\ auto_sync_timer["db"] = NoTimer
    /\ store' = InitStore
    /\ session' = "uninit"
    /\ result' = NoResult
    /\ hist' = [hist EXCEPT !.phase = IF @ = "closed" THEN @ ELSE "none", !.saves = 0]
    /\ UNCHANGED <<now, fs, backups, env, config, sync_lock, is_syncing,
                   auto_sync_timer, th, sync_log>>

\* PasswordDatabase.create(db_path, master_password, totp_secret, username)
Create(db_path, master_password, totp_secret) ==
    /\ UiIdle
    /\ UNCHANGED <<now, env, sync_lock, is_syncing, sync_log>>
    /\ \E salt \in Salts :
          LET h == create_head(store, config, db_path, master_password, totp_secret,
                               "user", salt)
          IN  Save("create", h.store, h.config, PathArgs(db_path, master_password))

\* PasswordDatabase.open(db_path, master_password)
Open(db_path, master_password) ==
    /\ UiIdle
    /\ UNCHANGED <<now, env, backups, sync_lock, is_syncing, sync_log>>
    /\ IF is_cloud_enabled(config) /\ config.cloud_storage.sync_on_open
       THEN \* self.cloud_sync.sync_from_remote(cloud_db_path), line 127
            /\ th' = [th EXCEPT !["ui"] =
                        Call("ui", "pull", "db", get_effective_database_path(config, env),
                             "open", "open", PathArgs(db_path, master_password))]
            /\ UNCHANGED <<fs, config, store, result, session, hist, auto_sync_timer>>
       ELSE FinishOpen(open_body(store, config, fs, env, db_path, master_password),
                       config, fs, PathArgs(db_path, master_password))

\* PasswordDatabase.close()
Close ==
    /\ UiIdle
    /\ UNCHANGED <<now, env, backups, sync_lock, is_syncing, sync_log>>
    /\ Finish("close", TRUE, "none", store, config, fs,
              [auto_sync_timer EXCEPT !["db"] = stop_auto_sync(@)], NoArgs)

\* PasswordDatabase.add_password(password_data)
AddPassword(password_data) ==
    /\ UiIdle
    /\ Len(store.data.passwords) < MaxRecords
    /\ UNCHANGED <<now, env, sync_lock, is_syncing, sync_log>>
    /\ Save("add_password", add_password(store, password_data), config, NoArgs)

\* PasswordDatabase.update_totp_secret(totp_secret, username), lines 390-394
UpdateTotpSecret(totp_secret, username) ==
    /\ UiIdle
    /\ UNCHANGED <<now, env, sync_lock, is_syncing, sync_log>>
    /\ Save("update_totp_secret",
            [store EXCEPT !.data.totp_secret = totp_secret, !.data.username = username],
            config, NoArgs)

\* PasswordDatabase.add_category(category)
AddCategory(category) ==
    /\ UiIdle
    /\ Len(store.data.categories) < MaxCategories
    /\ UNCHANGED <<now, env, sync_lock, is_syncing, sync_log>>
    /\ IF category \notin Range(store.data.categories)
       THEN Save("add_category", add_category(store, category), config,
                 CatArgs(category, ""))
       ELSE /\ Finish("add_category", TRUE, "none", store, config, fs, auto_sync_timer,
                      CatArgs(category, ""))
            /\ UNCHANGED backups

\* PasswordDatabase.delete_category(category)
DeleteCategory(category) ==
    /\ UiIdle
    /\ UNCHANGED <<now, env, sync_lock, is_syncing, sync_log>>
    /\ IF category \in Range(store.data.categories)
       THEN Save("delete_category", delete_category(store, category), config,
                 CatArgs(category, ""))
       ELSE /\ Finish("delete_category", FALSE, "none", store, config, fs,
                      auto_sync_timer, CatArgs(category, ""))
            /\ UNCHANGED backups

\* PasswordDatabase.rename_category(old_name, new_name)
RenameCategory(old_name, new_name) ==
    /\ UiIdle
    /\ UNCHANGED <<now, env, sync_lock, is_syncing, sync_log>>
    /\ IF old_name \notin Range(store.data.categories)
          \/ new_name \in Range(store.data.categories)
       THEN /\ Finish("rename_category", FALSE, "none", store, config, fs,
                      auto_sync_timer, CatArgs(old_name, new_name))
            /\ UNCHANGED backups
       ELSE Save("rename_category", rename_category(store, old_name, new_name), config,
                 CatArgs(old_name, new_name))

\* PasswordDatabase.update_password(password_id, password_data)
UpdatePassword(password_id, password_data) ==
    /\ UiIdle
    /\ UNCHANGED <<now, env, sync_lock, is_syncing, sync_log>>
    /\ IF \E k \in 1..Len(store.data.passwords) : store.data.passwords[k].id = password_id
       THEN Save("update_password", update_password(store, password_id, password_data),
                 config, NoArgs)
       ELSE /\ Finish("update_password", FALSE, "none", store, config, fs,
                      auto_sync_timer, NoArgs)
            /\ UNCHANGED backups

\* PasswordDatabase.delete_password(password_id)
DeletePassword(password_id) ==
    /\ UiIdle
    /\ UNCHANGED <<now, env, sync_lock, is_syncing, sync_log>>
    /\ IF \E k \in 1..Len(store.data.passwords) : store.data.passwords[k].id = password_id
       THEN Save("delete_password", delete_password(store, password_id), config, NoArgs)
       ELSE /\ Finish("delete_password", FALSE, "none", store, config, fs,
                      auto_sync_timer, NoArgs)
            /\ UNCHANGED backups

\* PasswordDatabase.import_data(import_path, password), lines 458-488
ImportData(import_path, password) ==
    /\ UiIdle
    /\ UNCHANGED <<now, env, sync_lock, is_syncing, sync_log>>
    /\ IF import_text(fs, import_path, password) # NoPlain
       THEN Save("import_data",
                 merge_data(store, json_loads(import_text(fs, import_path, password))),
                 config, ImportArgs(import_path, password, store))
       ELSE /\ Finish("import_data", FALSE, "none", store, config, fs,
                      auto_sync_timer, ImportArgs(import_path, password, store))
            /\ UNCHANGED backups

\* PasswordDatabase.save(), called on its own
SaveCall ==
    /\ UiIdle
    /\ hist.saves < MaxSaves
    /\ UNCHANGED <<now, env, sync_lock, is_syncing, sync_log>>
    /\ Save("save", store, config, NoArgs)

\* CloudSyncManager.manual_sync (cloud_sync.py lines 297-318) of manager mgr,
\* called on the UI thread.
ManualSync(mgr) ==
    IF ~is_cloud_enabled(config)
    THEN Finish("manual_sync", FALSE, "none", store, config, fs, auto_sync_timer, NoArgs)
    ELSE IF config.cloud_storage.sync_on_open
    THEN /\ th' = [th EXCEPT !["ui"] = Call("ui", "pull", mgr, NoPath, "mgr_pull",
                                            "manual_sync", NoArgs)]
         /\ UNCHANGED <<fs, config, store, result, session, hist, auto_sync_timer>>
    ELSE IF config.cloud_storage.sync_on_save
    THEN /\ th' = [th EXCEPT !["ui"] = Call("ui", "push", mgr, NoPath, "mgr_push",
                                            "manual_sync", NoArgs)]
         /\ UNCHANGED <<fs, config, store, result, session, hist, auto_sync_timer>>
    ELSE Finish("manual_sync", TRUE, "none", store, config, fs, auto_sync_timer, NoArgs)

\* PasswordDatabase.manual_sync(), lines 522-536
DbManualSync ==
    /\ UiIdle
    /\ UNCHANGED <<now, env, backups, sync_lock, is_syncing, sync_log>>
    /\ IF store.db_path # NoPath
       THEN /\ th' = [th EXCEPT !["ui"] = Call("ui", "push", "db", store.db_path,
                                               "db_manual", "manual_sync", NoArgs)]
            /\ UNCHANGED <<fs, config, store, result, session, hist, auto_sync_timer>>
       ELSE ManualSync("db")

\* CloudSyncManager.manual_sync() of the store's manager, called as it is.
EngineManualSync ==
    /\ UiIdle
    /\ UNCHANGED <<now, env, backups, sync_lock, is_syncing, sync_log>>
    /\ ManualSync("db")

\* MainWindow.manual_sync (main_window.py lines 1895-1910) calls manual_sync of
\* the window's own manager.
WindowManualSync ==
    /\ UiIdle
    /\ is_cloud_enabled(config)
    /\ UNCHANGED <<now, env, backups, sync_lock, is_syncing, sync_log>>
    /\ ManualSync("win")

\* CloudSyncManager.start_auto_sync() of the store's manager, called on the UI
\* thread (PasswordDatabase.open, line 208).
StartAutoSync ==
    /\ UiIdle
    /\ auto_sync_timer["db"].orphans < MaxOrphans
    /\ auto_sync_timer' = [auto_sync_timer EXCEPT !["db"] = start_auto_sync(@, config)]
    /\ result' = [NoResult EXCEPT !.op = "start_auto_sync"]
    /\ UNCHANGED <<now, fs, backups, env, config, store, session, sync_lock, is_syncing,
                   th, hist, sync_log>>

\* CloudSyncManager.stop_auto_sync() of the store's manager, called on the UI
\* thread (PasswordDatabase.close, line 519).
StopAutoSync ==
    /\ UiIdle
    /\ auto_sync_timer' = [auto_sync_timer EXCEPT !["db"] = stop_auto_sync(@)]
    /\ result' = [NoResult EXCEPT !.op = "stop_auto_sync"]
    /\ UNCHANGED <<now, fs, backups, env, config, store, session, sync_lock, is_syncing,
                   th, hist, sync_log>>

\* The timer of the store's manager fires: auto_sync (cloud_sync.py lines
\* 277-285) runs on the timer's thread.
TimerFire ==
    /\ th["timer"].pc = "idle"
    /\ auto_sync_timer["db"].handle = "pending"
    /\ UNCHANGED <<now, env, backups, sync_lock, is_syncing, fs, config, store, result,
                   session, hist, sync_log>>
    /\ IF config.cloud_storage.sync_enabled
       THEN /\ th' = [th EXCEPT !["timer"] = Call("timer", "pull", "db", NoPath,
                                                  "tick_pull", "tick", NoArgs)]
            /\ auto_sync_timer' = [auto_sync_timer EXCEPT !["db"].handle = "fired"]
       ELSE /\ auto_sync_timer' = [auto_sync_timer EXCEPT
                                     !["db"] = rearm([@ EXCEPT !.handle = "fired"])]
            /\ UNCHANGED th

(***************************************************************************)
(* The record store on its own: replication and backups are switched off   *)
(* in the configuration, and a write of the container may fail.            *)
(***************************************************************************)
InitWith(cfg, e) ==
    /\ now = 0
    /\ fs = [p \in AllPaths |-> NoFile]
    /\ backups = [d \in Dirs |-> {}]
    /\ env = e
    /\ config = cfg
    /\ store = InitStore
    /\ session = "uninit"
    /\ sync_lock = [m \in Managers |-> Free]
    /\ is_syncing = [m \in Managers |-> FALSE]
    /\ auto_sync_timer = [m \in Managers |-> NoTimer]
    /\ th = [t \in Threads |-> IdleThread]
    /\ result = NoResult
    /\ hist = NoHist
    /\ sync_log = NoSyncLog

LocalEnv(faults) == [exists |-> Dirs, writable |-> Dirs, faults |-> faults]

\* Create, add, close, re-open: one container path; the stored second-factor
\* secret is the master secret or another one.
InitRoundTrip ==
    InitWith([DefaultConfig EXCEPT !.backup_enabled = FALSE], LocalEnv({"write"}))

NextRoundTrip ==
    \/ session = "closed" /\ NewStore
    \/ \E pw \in Secrets : \E totp \in {pw, Padded} : Create(P("local", "a"), pw, totp)
    \/ \E pw \in Secrets : Open(P("local", "a"), pw)
    \/ Close
    \/ session = "open" /\ \E d \in Payloads : AddPassword([d EXCEPT !.category = "Other"])

SpecRoundTrip == InitRoundTrip /\ [][NextRoundTrip]_vars

\* The container at the path open() settled on decrypts under the secret given.
Decrypts(st, f, master_password) ==
    /\ st.db_path # NoPath
    /\ Exists(f, st.db_path)
    /\ f[st.db_path].content.kind = "container"
    /\ decrypt(f[st.db_path].content.ct,
               generate_key(master_password, f[st.db_path].content.salt)) # NoPlain

\* C3: when open(path, secret) on an Uninitialized store finds a container that
\* decrypts but whose stored totp_secret differs from the secret, it fails with
\* INVALID_KEY and data, key and salt of the store are what they were before.
C3_OpenMismatchLeavesStoreUninitialized ==
    [][(/\ session = "uninit"
        /\ UiIdle
        /\ result'.op = "open"
        /\ ~result'.ok
        /\ Decrypts(store', fs, result'.args.pw))
       => (/\ store'.last_error = "INVALID_KEY"
           /\ store'.data = store.data
           /\ store'.key = store.key
           /\ store'.salt = store.salt)]_vars

\* C4: after create(A, S, totp_secret = S), successful add_password calls and
\* close(), open(A, S) succeeds and the vault holds exactly the records added,
\* field by field.
C4_CreateReopenRoundTrip ==
    (hist.phase = "reopened" /\ hist.created.totp = hist.created.pw)
        => (/\ result.op = "open"
            /\ result.ok
            /\ store.data.passwords = hist.added)

C4_Reopened ==
    /\ hist.phase = "reopened"
    /\ hist.created.totp = hist.created.pw
    /\ Len(hist.added) = 2
    /\ hist.added[1].title # hist.added[2].title
    /\ store.data.passwords = hist.added

\* The categories of one vault.
InitCategories ==
    InitWith([DefaultConfig EXCEPT !.backup_enabled = FALSE], LocalEnv({}))

NextCategories ==
    \/ session = "uninit" /\ Create(P("local", "a"), <<"S">>, <<"S">>)
    \/ session = "open" /\ \E c \in CategoryNames :
                              AddPassword([CHOOSE d \in Payloads : TRUE EXCEPT !.category = c])
    \/ session = "open" /\ \E c \in CategoryNames : AddCategory(c)
    \/ session = "open" /\ \E c \in CategoryNames : DeleteCategory(c)
    \/ session = "open" /\ \E o \in CategoryNames, n \in CategoryNames :
                              RenameCategory(o, n)

SpecCategories == InitCategories /\ [][NextCategories]_vars

C10_FallbackCategoryStays ==
    session = "open" => "Other" \in Range(store.data.categories)

(***************************************************************************)
(* Replication to a network drive.                                         *)
(***************************************************************************)
CloudConfig ==
    [DefaultConfig EXCEPT !.backup_enabled = FALSE,
                          !.cloud_storage.enabled = TRUE,
                          !.cloud_storage.type = "network_drive",
                          !.cloud_storage.network_drive_path = "net"]

\* The environments of a push: the drive is there and its I/O may fail, the
\* drive is missing, the drive is read-only.
PushEnvs ==
    {LocalEnv({"remote"}),
     [LocalEnv({}) EXCEPT !.exists = Dirs \ {"net"}],
     [LocalEnv({}) EXCEPT !.writable = Dirs \ {"net"}]}

\* The foreground thread alone: every save pushes, and the push may fail.
InitPush ==
    \E e \in PushEnvs :
        InitWith([CloudConfig EXCEPT !.cloud_storage.sync_on_open = FALSE], e)

NextPush ==
    \/ Tick
    \/ session = "uninit" /\ Create(P("local", "a"), <<"S">>, <<"S">>)
    \/ session = "open" /\ AddPassword([CHOOSE d \in Payloads : TRUE EXCEPT
                                           !.category = "Other"])
    \/ session = "open" /\ DbManualSync
    \/ PushBegin("ui")
    \/ PushCopy("ui")
    \/ PushReplace("ui")
    \/ PushRename("ui")

SpecPush == InitPush /\ [][NextPush]_vars

\* C1: a push that fails once <target>.tmp is written and before the rename
\* onto <target> is done leaves the remote target it found, content and all.
\* (The push of create() is left out: create() itself writes the target next.)
C1_FailedPushKeepsRemoteTarget ==
    [][(/\ th["ui"].pc \in {"push_replace", "push_rename"}
        /\ th["ui"].staged
        /\ th["ui"].op # "create"
        /\ th["ui"].pre # NoFile
        /\ th'["ui"].pc = "idle"
        /\ result'.pushed = "failed")
       => fs'[th["ui"].rpath] = th["ui"].pre]_vars

\* C5: once save() has written the local container it returns success, whatever
\* the push on save returned.
C5_PushFailureDoesNotFailSave ==
    (result.op # "manual_sync" /\ result.pushed = "failed") => result.ok

C5_SavedThoughPushFailed ==
    /\ result.op = "add_password"
    /\ result.pushed = "failed"
    /\ result.ok
    /\ Len(store.data.passwords) > 0

\* The foreground thread and the timer thread, with no I/O failure.
InitSync == InitWith(CloudConfig, LocalEnv({}))

NextSync ==
    \/ session = "uninit" /\ Create(P("local", "a"), <<"S">>, <<"S">>)
    \/ session = "open" /\ Close
    \/ session = "closed" /\ NewStore
    \/ session = "uninit" /\ Open(P("local", "a"), <<"S">>)
    \/ session = "open" /\ AddPassword([CHOOSE d \in Payloads : TRUE EXCEPT
                                           !.category = "Other"])
    \/ session = "open" /\ WindowManualSync
    \/ TimerFire
    \/ \E t \in Threads : PushBegin(t)
    \/ \E t \in Threads : PushCopy(t)
    \/ \E t \in Threads : PushReplace(t)
    \/ \E t \in Threads : PushRename(t)
    \/ \E t \in Threads : PullBegin(t)
    \/ \E t \in Threads : PullCopy(t)

SpecSync == InitSync /\ [][NextSync]_vars

CopyPhase == {"push_copy", "push_replace", "push_rename", "pull_copy"}

\* C2: at most one push or pull is in its file-copy phase at any moment.
C2_OneSyncAtATime ==
    Cardinality({t \in Threads : th[t].pc \in CopyPhase}) <= 1

\* C6: with replication to an existing writable network drive and sync on save,
\* a successful save() of an Open session leaves at <drive>/<name of the
\* session's container> a file with the bytes of the container just written.
C6_SaveLeavesRemoteCopy ==
    [][(/\ session = "open"
        /\ th["ui"].after = "save"
        /\ th'["ui"].pc = "idle"
        /\ result'.ok)
       => LET target == P(config.cloud_storage.network_drive_path, store'.db_path.name)
          IN  /\ Exists(fs', target)
              /\ fs'[target].content = Container(store')]_vars

(***************************************************************************)
(* Backups.                                                                *)
(***************************************************************************)
InitBackup ==
    InitWith([DefaultConfig EXCEPT !.backup_count = BackupCount], LocalEnv({}))

NextBackup ==
    \/ Tick
    \/ session = "uninit" /\ Create(P("local", "a"), <<"S">>, <<"S">>)
    \/ session = "open" /\ SaveCall
    \/ session = "open" /\ AddPassword([CHOOSE d \in Payloads : TRUE EXCEPT
                                           !.category = "Other"])

SpecBackup == InitBackup /\ [][NextBackup]_vars

\* C7: with backups on and retention count K, once more than K saves of the
\* container are done exactly K backup files are in the backup directory.
C7_BackupRetention ==
    (session = "open" /\ result.op = "save" /\ hist.saves + 1 > config.backup_count)
        => Cardinality(backups[store.db_path.dir]) = config.backup_count

\* C8: two save() calls in a row on an existing container, nothing changed in
\* between, leave two distinct backup files, one per save.
C8_TwoSavesTwoBackups ==
    (session = "open" /\ result.op = "save" /\ hist.saves = 2
     /\ Len(store.data.passwords) = 0)
        => Cardinality(backups[store.db_path.dir]) = 2

(***************************************************************************)
(* Import: a session at local/a and, at docs/b, the export of another      *)
(* vault, whose records carry ids and ages from small sets.                *)
(***************************************************************************)
ImportIds == {1, 2}
ImportTimes == {1, 2}
ImportRecords ==
    {[NoRecord EXCEPT !.id = i, !.title = "Imported", !.category = "Travel",
                      !.created_at = 0, !.updated_at = u] :
        i \in ImportIds, u \in ImportTimes}
ImportedVaults ==
    {[EmptyData EXCEPT !.categories = <<"Other", "Travel">>, !.passwords = pwds] :
        pwds \in UNION {[1..k -> ImportRecords] : k \in 0..MaxImported}}

\* The state after construction, with the files f already in the file system.
InitWithFiles(cfg, e, f) ==
    /\ now = 0
    /\ fs = f
    /\ backups = [d \in Dirs |-> {}]
    /\ env = e
    /\ config = cfg
    /\ store = InitStore
    /\ session = "uninit"
    /\ sync_lock = [m \in Managers |-> Free]
    /\ is_syncing = [m \in Managers |-> FALSE]
    /\ auto_sync_timer = [m \in Managers |-> NoTimer]
    /\ th = [t \in Threads |-> IdleThread]
    /\ result = NoResult
    /\ hist = NoHist
    /\ sync_log = NoSyncLog

InitImport ==
    \E d \in ImportedVaults :
        InitWithFiles([DefaultConfig EXCEPT !.backup_enabled = FALSE], LocalEnv({}),
                      [p \in AllPaths |->
                          IF p = P("docs", "b")
                          THEN File(export_data(d, <<"S">>, 1), 0) ELSE NoFile])

NextImport ==
    \/ Tick
    \/ session = "uninit" /\ Create(P("local", "a"), <<"S">>, <<"S">>)
    \/ /\ session = "open"
       /\ AddPassword([NoRecord EXCEPT !.title = "Example", !.category = "Other"])
    \/ session = "open" /\ \E pw \in Secrets : ImportData(P("docs", "b"), pw)

SpecImport == InitImport /\ [][NextImport]_vars

\* The records of the import file of the last import_data call.
Imported == json_loads(import_text(fs, result.args.path, result.args.pw)).passwords

\* The id occurs in exactly one record of pwds.
OnceIn(pwds, id) == Cardinality({k \in 1..Len(pwds) : pwds[k].id = id}) = 1

\* C11: when import_data has merged a record whose id the vault already held
\* (the id being that of one record of the vault and of one record of the
\* import file), the record of the vault is the one it was if the imported
\* updated_at is earlier than or equal to its own, and is the imported record
\* if the imported updated_at is later.
C11_MergeByRecency ==
    (result.op = "import_data" /\ result.ok) =>
        \A i \in 1..Len(result.args.before), j \in 1..Len(Imported) :
            (/\ result.args.before[i].id = Imported[j].id
             /\ OnceIn(result.args.before, Imported[j].id)
             /\ OnceIn(Imported, Imported[j].id))
            => store.data.passwords[i] =
                  IF Imported[j].updated_at > result.args.before[i].updated_at
                  THEN Imported[j] ELSE result.args.before[i]

\* An import has met a record that was older than the imported one and one that
\* was of the same age, with other content.
C11_MergedBothWays ==
    /\ result.op = "import_data" /\ result.ok
    /\ \E i \in 1..Len(result.args.before), j \in 1..Len(Imported) :
          /\ result.args.before[i].id = Imported[j].id
          /\ Imported[j].updated_at > result.args.before[i].updated_at
          /\ store.data.passwords[i] = Imported[j]
    /\ \E i \in 1..Len(result.args.before), j \in 1..Len(Imported) :
          /\ result.args.before[i].id = Imported[j].id
          /\ OnceIn(result.args.before, Imported[j].id)
          /\ OnceIn(Imported, Imported[j].id)
          /\ Imported[j].updated_at <= result.args.before[i].updated_at
          /\ Imported[j] # result.args.before[i]
          /\ store.data.passwords[i] = result.args.before[i]

(***************************************************************************)
(* Pulls: replication is switched on for a vault at local/a, and the drive *)
(* holds the vault another device wrote; the two files' modification times *)
(* and the conflict policy are drawn from small sets.  The foreground      *)
(* thread alone; the drive's I/O may fail.                                 *)
(***************************************************************************)
ConflictPolicies == {"newer", "local", "remote", "ask"}
FileTimes == {0, 1}

\* The container a device holds after create(local/a, S, S) and n records.
DeviceVault(n) ==
    Container([create_head(InitStore, DefaultConfig, P("local", "a"), <<"S">>, <<"S">>,
                           "user", 1).store
               EXCEPT !.data.passwords =
                         [k \in 1..n |-> [NoRecord EXCEPT !.title = "Remote",
                                                          !.category = "Other"]]])

InitPull ==
    \E policy \in ConflictPolicies, local_mtime \in FileTimes, remote_mtime \in FileTimes :
        InitWithFiles([CloudConfig EXCEPT !.database_path = P("local", "a"),
                                          !.cloud_storage.conflict_resolution = policy],
                      LocalEnv({"remote"}),
                      [p \in AllPaths |->
                          IF p = P("local", "a") THEN File(DeviceVault(0), local_mtime)
                          ELSE IF p = P("net", "a") THEN File(DeviceVault(1), remote_mtime)
                          ELSE NoFile])

NextPull ==
    \/ Tick
    \/ session = "uninit" /\ Open(P("local", "a"), <<"S">>)
    \/ session = "open" /\ AddPassword([NoRecord EXCEPT !.title = "Example",
                                                        !.category = "Other"])
    \/ session = "open" /\ WindowManualSync
    \/ PushBegin("ui")
    \/ PushCopy("ui")
    \/ PushReplace("ui")
    \/ PushRename("ui")
    \/ PullBegin("ui")
    \/ PullCopy("ui")

SpecPull == InitPull /\ [][NextPull]_vars

\* Thread t makes a step of its own.
Moves(t) == th'[t] # th[t]

\* C12: with conflict_resolution "newer", when the local file exists and its
\* modification time is greater than or equal to the remote file's,
\* sync_from_remote returns success, leaves the file system (the local file's
\* content with it) unchanged and does not update last_sync_time.
C12_NewerKeepsLocal ==
    [][\A t \in Threads :
          LET local_file_path == pull_target(config, th[t].lpath)
              remote_path == get_remote_path(config)
          IN  (/\ th[t].pc = "pull" /\ Moves(t)
               /\ is_cloud_enabled(config)
               /\ config.cloud_storage.conflict_resolution = "newer"
               /\ remote_path # NoPath /\ Exists(fs, remote_path)
               /\ Exists(fs, local_file_path)
               /\ fs[local_file_path].mtime >= fs[remote_path].mtime)
              => /\ sync_log' = [thread |-> t, kind |-> "pull", ok |-> TRUE,
                                 copied |-> FALSE]
                 /\ fs' = fs
                 /\ config'.cloud_storage.last_sync_time
                       = config.cloud_storage.last_sync_time]_vars

\* The pull of a manual sync has just returned success without copying: the
\* local file is newer than the remote one, and their contents differ.
C12_KeptNewerLocal ==
    /\ config.cloud_storage.conflict_resolution = "newer"
    /\ th["ui"].pc = "push" /\ th["ui"].after = "mgr_push"
    /\ sync_log = [thread |-> "ui", kind |-> "pull", ok |-> TRUE, copied |-> FALSE]
    /\ Exists(fs, config.database_path) /\ Exists(fs, get_remote_path(config))
    /\ config.database_path # get_remote_path(config)
    /\ fs[config.database_path].mtime > fs[get_remote_path(config)].mtime
    /\ fs[config.database_path].content # fs[get_remote_path(config)].content

\* C13: with conflict_resolution "ask" and both files there, sync_from_remote
\* does not pick an outcome by itself: the copy step of a pull neither changes
\* the local file nor is reported as a completed pull.
C13_AskDoesNotOverwrite ==
    [][\A t \in Threads :
          (/\ th[t].pc = "pull_copy" /\ Moves(t)
           /\ config.cloud_storage.conflict_resolution = "ask"
           /\ th[t].lpath # th[t].rpath
           /\ Exists(fs, th[t].lpath) /\ Exists(fs, th[t].rpath))
          => /\ fs'[th[t].lpath] = fs[th[t].lpath]
             /\ ~sync_log'.copied]_vars

\* C19: last_sync_time changes only in the last step of a push or a pull that
\* copied the file and returns success; a call that returns failure, or
\* returns without copying, leaves it as it was.
C19_SyncTimeOnlyAfterCopy ==
    [][(config'.cloud_storage.last_sync_time # config.cloud_storage.last_sync_time)
       => \E t \in Threads :
             /\ th[t].pc \in {"push_rename", "pull_copy"} /\ Moves(t)
             /\ sync_log' = [thread |-> t,
                             kind |-> IF th[t].pc = "pull_copy" THEN "pull" ELSE "push",
                             ok |-> TRUE, copied |-> TRUE]
             /\ config'.cloud_storage.last_sync_time = now
             /\ th[t].pc = "push_rename" => fs'[th[t].rpath] = fs[Tmp(th[t].rpath)]
             /\ th[t].pc = "pull_copy" => fs'[th[t].lpath] = fs[th[t].rpath]]_vars

\* The pull of a manual sync has just copied the remote file onto the local one
\* and set the sync time to the present.
C19_SyncTimeAdvanced ==
    /\ sync_log = [thread |-> "ui", kind |-> "pull", ok |-> TRUE, copied |-> TRUE]
    /\ config.cloud_storage.last_sync_time = now
    /\ now > 0
    /\ fs[config.database_path] = fs[get_remote_path(config)]
    /\ th["ui"].pc = "push" /\ th["ui"].after = "mgr_push"

\* C14: once close() (stop_auto_sync) has returned, no tick starts any more:
\* when the tick that was in flight has finished, no timer is pending.
C14_NoTimerAfterStop ==
    (session = "closed" /\ th["timer"].pc = "idle")
        => /\ auto_sync_timer["db"].handle # "pending"
           /\ auto_sync_timer["db"].orphans = 0

(***************************************************************************)
(* The periodic schedule of one manager: start_auto_sync and stop_auto_sync *)
(* are called while the timer's thread runs its ticks.                     *)
(***************************************************************************)
InitTimer == InitWith([CloudConfig EXCEPT !.database_path = P("local", "a")], LocalEnv({}))

NextTimer ==
    \/ session = "uninit" /\ Create(P("local", "a"), <<"S">>, <<"S">>)
    \/ StartAutoSync
    \/ StopAutoSync
    \/ TimerFire
    \/ \E t \in Threads : PushBegin(t)
    \/ \E t \in Threads : PushCopy(t)
    \/ \E t \in Threads : PushReplace(t)
    \/ \E t \in Threads : PushRename(t)
    \/ \E t \in Threads : PullBegin(t)
    \/ \E t \in Threads : PullCopy(t)

SpecTimer == InitTimer /\ [][NextTimer]_vars

\* The periodic schedules of manager mgr: the timer it refers to when that is
\* pending, the timers left running without a reference, and the tick in flight
\* (which sets the next timer when it ends).
Schedules(mgr) ==
    (IF auto_sync_timer[mgr].handle = "pending" THEN 1 ELSE 0)
    + auto_sync_timer[mgr].orphans
    + (IF th["timer"].pc # "idle" /\ th["timer"].mgr = mgr THEN 1 ELSE 0)

\* C15: whatever start_auto_sync calls were made, also while a tick was
\* executing, the manager has at most one periodic schedule; stop_auto_sync
\* with nothing scheduled changes nothing.
C15_OneSchedule ==
    /\ Schedules("db") <= 1
    /\ (auto_sync_timer["db"].handle = "None")
          => stop_auto_sync(auto_sync_timer["db"]) = auto_sync_timer["db"]

(***************************************************************************)
(* The life cycle of a store: the calls that change records and categories *)
(* are made in every state of the session, also before create() and after  *)
(* close().  Replication and backups are switched off.                     *)
(***************************************************************************)
MutationOps ==
    {"add_password", "update_password", "delete_password", "add_category",
     "delete_category", "rename_category"}

InitLifecycle == InitWith([DefaultConfig EXCEPT !.backup_enabled = FALSE], LocalEnv({}))

NextLifecycle ==
    \/ session = "uninit" /\ Create(P("local", "a"), <<"S">>, <<"S">>)
    \/ session = "open" /\ Close
    \/ session = "closed" /\ NewStore
    \/ AddPassword([NoRecord EXCEPT !.title = "Example", !.category = "Work"])
    \/ UpdatePassword(0, [NoRecord EXCEPT !.title = "Edited", !.category = "Work"])
    \/ DeletePassword(0)
    \/ AddCategory("Work")
    \/ DeleteCategory("Work")
    \/ RenameCategory("Work", "Home")

SpecLifecycle == InitLifecycle /\ [][NextLifecycle]_vars

\* C16: add_password, update_password, delete_password, add_category,
\* delete_category and rename_category, called on a store before any create or
\* open or after close(), change neither the vault in memory nor any file.
C16_MutationOnlyWhenOpen ==
    [][(/\ session \in {"uninit", "closed"}
        /\ session' = session
        /\ result'.op \in MutationOps)
       => /\ store'.data = store.data
          /\ fs' = fs]_vars

(***************************************************************************)
(* open() on files of every kind: at local/a and local/b there is no file, *)
(* a file cut short, or a container whose token does not verify, or whose  *)
(* token verifies under the secret S and holds a vault or another text.    *)
(***************************************************************************)
OpenTexts ==
    {json_dumps([EmptyData EXCEPT !.categories = default_categories,
                                  !.last_modified = 0, !.totp_secret = <<"S">>,
                                  !.username = "user"])} \cup OtherTexts

OpenFiles ==
    {NoFile, File(ShortContent, 0),
     File([kind |-> "container", salt |-> 1, ct |-> NoToken], 0)}
    \cup {File([kind |-> "container", salt |-> 1,
                ct |-> encrypt(x, generate_key(<<"S">>, 1))], 0) : x \in OpenTexts}

InitOpenErrors ==
    \E a \in OpenFiles, b \in OpenFiles :
        InitWithFiles([DefaultConfig EXCEPT !.backup_enabled = FALSE], LocalEnv({}),
                      [p \in AllPaths |-> IF p = P("local", "a") THEN a
                                          ELSE IF p = P("local", "b") THEN b
                                          ELSE NoFile])

NextOpenErrors ==
    \/ /\ session = "uninit"
       /\ \E n \in Names, pw \in Secrets : Open(P("local", n), pw)
    \/ session = "open" /\ Close
    \/ session = "closed" /\ NewStore

SpecOpenErrors == InitOpenErrors /\ [][NextOpenErrors]_vars

\* The text the file of the last open() holds under the secret given; NoPlain
\* when the token does not verify.
OpenedText ==
    decrypt(fs[result.args.path].content.ct,
            generate_key(result.args.pw, fs[result.args.path].content.salt))

\* C17: open() of an existing file fails with DATA_CORRUPTED when the file is
\* shorter than 16 bytes, with INVALID_KEY when the token does not verify under
\* the key, and with DATA_CORRUPTED when it verifies but the text is not a
\* well-formed vault (the empty text and JSON that is not a vault included); it
\* never succeeds on such a file.
C17_TypedOpenErrors ==
    (result.op = "open" /\ Exists(fs, result.args.path))
        => LET c == fs[result.args.path].content
           IN  /\ c.kind = "short"
                    => ~result.ok /\ store.last_error = "DATA_CORRUPTED"
               /\ (c.kind = "container" /\ OpenedText = NoPlain)
                    => ~result.ok /\ store.last_error = "INVALID_KEY"
               /\ (c.kind = "container" /\ OpenedText \in OtherTexts)
                    => ~result.ok /\ store.last_error = "DATA_CORRUPTED"

\* The replication target of the path the last create() was given.
CreateTarget ==
    get_effective_database_path([config EXCEPT !.database_path = result.args.path], env)

InitManual ==
    \E on_open \in BOOLEAN, on_save \in BOOLEAN :
        InitWithFiles([CloudConfig EXCEPT !.database_path = P("local", "a"),
                                          !.cloud_storage.sync_on_open = on_open,
                                          !.cloud_storage.sync_on_save = on_save],
                      LocalEnv({"remote"}),
                      [p \in AllPaths |->
                          IF p = P("local", "a") THEN File(DeviceVault(0), 0)
                          ELSE IF p = P("net", "a") THEN File(DeviceVault(1), 1)
                          ELSE NoFile])

NextManual ==
    \/ session = "uninit" /\ Open(P("local", "a"), <<"S">>)
    \/ session = "open" /\ DbManualSync
    \/ session = "open" /\ WindowManualSync
    \/ PushBegin("ui")
    \/ PushCopy("ui")
    \/ PushReplace("ui")
    \/ PushRename("ui")
    \/ PullBegin("ui")
    \/ PullCopy("ui")

SpecManual == InitManual /\ [][NextManual]_vars

\* C20: a manual sync of a session begins with the pull when sync_on_open is
\* set, pushes only when sync_on_save is set, and returns what its last step
\* returned, the first failure ending it.
C20_ManualSyncPullsThenPushes ==
    [][/\ (UiIdle /\ th'["ui"].op = "manual_sync")
            => /\ config.cloud_storage.sync_on_open => th'["ui"].pc = "pull"
               /\ th'["ui"].pc = "push" => config.cloud_storage.sync_on_save
       /\ (th["ui"].op = "manual_sync" /\ th'["ui"].pc = "idle")
            => result'.ok = sync_log'.ok
       /\ (th["ui"].op = "manual_sync" /\ th'["ui"].op = "manual_sync"
             /\ th["ui"].after = "mgr_pull" /\ th'["ui"].after = "mgr_push")
            => sync_log'.ok /\ config.cloud_storage.sync_on_save]_vars

(***************************************************************************)
(* Replication switched off: a session is created, and a manual sync is    *)
(* asked for, of the store and of its manager.                             *)
(***************************************************************************)
InitDisabled == InitWith([DefaultConfig EXCEPT !.backup_enabled = FALSE], LocalEnv({}))

NextDisabled ==
    \/ Tick
    \/ session = "uninit" /\ Create(P("local", "a"), <<"S">>, <<"S">>)
    \/ session = "open" /\ AddPassword([NoRecord EXCEPT !.title = "Example",
                                                        !.category = "Other"])
    \/ session = "open" /\ DbManualSync
    \/ EngineManualSync
    \/ PushBegin("ui")

SpecDisabled == InitDisabled /\ [][NextDisabled]_vars

\* C21: a manual sync asked for while replication is disabled returns failure,
\* from PasswordDatabase.manual_sync on an open session as from
\* CloudSyncManager.manual_sync.
C21_ManualSyncDisabledFails ==
    (result.op = "manual_sync" /\ UiIdle /\ ~is_cloud_enabled(config)) => ~result.ok

(***************************************************************************)
(* Records over time: the clock runs while records are added and edited    *)
(* and their category is deleted or renamed.                               *)
(***************************************************************************)
InitRecords == InitWith([DefaultConfig EXCEPT !.backup_enabled = FALSE], LocalEnv({}))

NextRecords ==
    \/ Tick
    \/ session = "uninit" /\ Create(P("local", "a"), <<"S">>, <<"S">>)
    \/ session = "open" /\ AddCategory("Work")
    \/ session = "open" /\ AddPassword([NoRecord EXCEPT !.title = "Example",
                                                        !.category = "Work"])
    \/ /\ session = "open"
       /\ \E id \in 0..MaxTime :
             UpdatePassword(id, [NoRecord EXCEPT !.title = "Edited", !.category = "Work"])
    \/ session = "open" /\ DeleteCategory("Work")
    \/ session = "open" /\ RenameCategory("Work", "Home")

SpecRecords == InitRecords /\ [][NextRecords]_vars

\* C22: a call of update_password, delete_category or rename_category that
\* changes a record keeps the record's id and sets its updated_at to the
\* present; update_password keeps its created_at as well.
C22_MutationRefreshesUpdatedAt ==
    [][(/\ result'.op \in {"update_password", "delete_category", "rename_category"}
        /\ Len(store'.data.passwords) = Len(store.data.passwords))
       => \A i \in 1..Len(store.data.passwords) :
             store'.data.passwords[i] # store.data.passwords[i]
             => /\ store'.data.passwords[i].id = store.data.passwords[i].id
                /\ store'.data.passwords[i].updated_at = now
                /\ result'.op = "update_password"
                     => store'.data.passwords[i].created_at
                          = store.data.passwords[i].created_at]_vars

\* The ids of the records pwds.
Ids(pwds) == {pwds[k].id : k \in 1..Len(pwds)}

\* The categories of the import file of the last import_data call.
ImportedCategories ==
    json_loads(import_text(fs, result.args.path, result.args.pw)).categories

\* C23: after a successful import_data into a vault whose ids are distinct, the
\* categories are those of the vault and of the import file, the ids are those
\* of the vault and of the import file, and every id is that of one record,
\* also when the import file lists an id more than once.
C23_ImportIsUnionById ==
    (/\ result.op = "import_data" /\ result.ok
     /\ \A id \in Ids(result.args.before) : OnceIn(result.args.before, id))
    => /\ Range(store.data.categories)
            = Range(result.args.before_categories) \cup Range(ImportedCategories)
       /\ Ids(store.data.passwords) = Ids(result.args.before) \cup Ids(Imported)
       /\ \A id \in Ids(store.data.passwords) : OnceIn(store.data.passwords, id)

(***************************************************************************)
(* Path resolution: the configuration and the directories that exist are   *)
(* drawn from small sets, and get_effective_database_path is called.       *)
(***************************************************************************)
\* The cache folder CloudSyncManager.get_local_path falls back to: a directory
\* "cache" inside the configuration directory.
DefaultCacheDir == "cfg/cache"

PathConfigs ==
    {[DefaultConfig EXCEPT !.database_path = db,
                           !.cloud_storage.enabled = en,
                           !.cloud_storage.type = ty,
                           !.cloud_storage.network_drive_path = nd,
                           !.cloud_storage.remote_path = rp,
                           !.cloud_storage.local_cache_path = cp] :
        db \in {NoPath, P("local", "a")}, en \in BOOLEAN,
        ty \in {"local", "network_drive", "onedrive"},
        nd \in {"", "net"}, rp \in {"", "net"}, cp \in {"", "docs"}}

InitPaths ==
    \E cfg \in PathConfigs, missing \in SUBSET {"net", "docs"} :
        InitWith(cfg, [LocalEnv({}) EXCEPT !.exists = Dirs \ missing])

\* Config.get_effective_database_path(), with the cache folder it creates.
GetEffectiveDatabasePath ==
    /\ UiIdle
    /\ result.op = "none"
    /\ LET path == get_effective_database_path(config, env)
           cache_path == config.cloud_storage.local_cache_path
       IN  /\ result' = [NoResult EXCEPT !.op = "get_effective_database_path",
                                         !.args = PathArgs(path, NoSecret)]
           /\ env' = IF config.cloud_storage.enabled /\ cache_path # ""
                        /\ path.dir = cache_path
                     THEN [env EXCEPT !.exists = @ \cup {cache_path}]
                     ELSE env
    /\ UNCHANGED <<now, fs, backups, config, store, session, sync_lock, is_syncing,
                   auto_sync_timer, th, hist, sync_log>>

NextPaths == GetEffectiveDatabasePath

SpecPaths == InitPaths /\ [][NextPaths]_vars

\* The remote folder of the configured storage type; "" when there is none.
RemoteFolder(cfg) ==
    IF cfg.cloud_storage.type = "network_drive" THEN cfg.cloud_storage.network_drive_path
    ELSE IF cfg.cloud_storage.type \in CloudFolderTypes THEN cfg.cloud_storage.remote_path
    ELSE ""

\* C24: with replication enabled and the remote folder missing or not
\* configured, get_effective_database_path returns the database's base name
\* inside a local cache folder that exists afterwards: the configured
\* local_cache_path, or the default cache folder when none is configured.
C24_FallbackToCacheFolder ==
    (/\ result.op = "get_effective_database_path"
     /\ config.cloud_storage.enabled
     /\ RemoteFolder(config) = "" \/ RemoteFolder(config) \notin env.exists)
    => /\ result.args.path.name = get_database_filename(config)
       /\ result.args.path.dir =
             IF config.cloud_storage.local_cache_path # ""
             THEN config.cloud_storage.local_cache_path ELSE DefaultCacheDir
       /\ config.cloud_storage.local_cache_path # ""
            => config.cloud_storage.local_cache_path \in env.exists

(***************************************************************************)
(* Category lists: create, the three category operations and an import of  *)
(* a file whose category list may repeat a name.                           *)
(***************************************************************************)
ImportedCategoryLists == {<<"Travel", "Travel">>, <<"Other", "Work">>, <<"Home", "Work", "Home">>}

InitCategoryList ==
    \E cats \in ImportedCategoryLists :
        InitWithFiles([DefaultConfig EXCEPT !.backup_enabled = FALSE], LocalEnv({}),
                      [p \in AllPaths |->
                          IF p = P("docs", "b")
                          THEN File(export_data([EmptyData EXCEPT !.categories = cats],
                                                <<"S">>, 1), 0)
                          ELSE NoFile])

NextCategoryList ==
    \/ \E db_path \in {P("local", "a"), P("local", "b")} : Create(db_path, <<"S">>, <<"S">>)
    \/ \E category \in {"Work", "Other"} : AddCategory(category)
    \/ \E category \in {"Work", "Other"} : DeleteCategory(category)
    \/ \E old_name, new_name \in {"Work", "Other", "Home"} :
          RenameCategory(old_name, new_name)
    \/ \E pw \in Secrets : ImportData(P("docs", "b"), pw)

SpecCategoryList == InitCategoryList /\ [][NextCategoryList]_vars

NoDuplicates(seq) == \A i, j \in 1..Len(seq) : seq[i] = seq[j] => i = j

IsEmpty(f, p) == f[p].content = EmptyContent

InitPullVerify ==
    \E policy \in ConflictPolicies, remote_mtime \in FileTimes,
       remote_empty \in BOOLEAN, local_exists \in BOOLEAN :
        InitWithFiles([CloudConfig EXCEPT !.database_path = P("local", "a"),
                                          !.cloud_storage.conflict_resolution = policy],
                      LocalEnv({"remote"}),
                      [p \in AllPaths |->
                          IF p = P("local", "a") /\ local_exists
                          THEN File(DeviceVault(0), 0)
                          ELSE IF p = P("net", "a")
                          THEN File(IF remote_empty THEN EmptyContent ELSE DeviceVault(1),
                                    remote_mtime)
                          ELSE NoFile])

NextPullVerify ==
    \/ Tick
    \/ session = "uninit" /\ Open(P("local", "a"), <<"S">>)
    \/ WindowManualSync
    \/ PushBegin("ui")
    \/ PushCopy("ui")
    \/ PushReplace("ui")
    \/ PushRename("ui")
    \/ PullBegin("ui")
    \/ PullCopy("ui")

SpecPullVerify == InitPullVerify /\ [][NextPullVerify]_vars

\* C26: a pull returns success after its copy, and records last_sync_time,
\* only if the local file it wrote exists and is not empty.
C26_PullVerifiesSize ==
    [][\A t \in Threads :
          (/\ th[t].pc = "pull_copy" /\ Moves(t)
           /\ \/ sync_log'.ok
              \/ config'.cloud_storage.last_sync_time
                   # config.cloud_storage.last_sync_time)
          => /\ Exists(fs', th[t].lpath)
             /\ ~IsEmpty(fs', th[t].lpath)]_vars

\* C27: whatever was called on the store object before, a create that has just
\* returned leaves a vault with no records and exactly the six default
\* categories.
C27_CreateStartsFromDefaults ==
    result.op = "create"
    => /\ store.data.passwords = << >>
       /\ store.data.categories = InitStore.default_categories

\* C28: in every pull that reaches its copy step, the pull issued by open
\* included, the local destination differs from the remote source path.
C28_PullTargetIsNotRemote ==
    \A t \in Threads : th[t].pc = "pull_copy" => th[t].lpath # th[t].rpath

\* C29: a pull whose copy fails leaves the local file it was writing as it was
\* before the pull.
C29_FailedPullKeepsLocal ==
    [][\A t \in Threads :
          (th[t].pc = "pull_copy" /\ Moves(t) /\ ~sync_log'.ok)
          => fs'[th[t].lpath] = fs[th[t].lpath]]_vars

(***************************************************************************)
(* The path open() selects with replication enabled: the drive folder, the *)
(* cache folder and the files at the candidate paths vary.                 *)
(***************************************************************************)
InitOpenPath ==
    \E sync_on_open \in BOOLEAN, policy \in {"newer", "remote"}, cache \in {"", "docs"},
       drive \in BOOLEAN, present \in SUBSET {"net", "local", "docs"},
       other \in BOOLEAN :
        /\ ("net" \in present) => drive
        /\ InitWithFiles([CloudConfig EXCEPT !.database_path = P("local", "a"),
                                            !.cloud_storage.sync_on_open = sync_on_open,
                                            !.cloud_storage.conflict_resolution = policy,
                                            !.cloud_storage.local_cache_path = cache],
                         [LocalEnv({}) EXCEPT
                             !.exists = IF drive THEN Dirs ELSE Dirs \ {"net"}],
                         [p \in AllPaths |->
                             IF p.name = "a" /\ ~p.tmp /\ p.dir \in present
                             THEN File(DeviceVault(IF p.dir = "local" THEN 1
                                                   ELSE IF p.dir = "net" THEN 2 ELSE 0), 0)
                             ELSE IF p = P("local", "b") /\ other
                             THEN File(DeviceVault(2), 0)
                             ELSE NoFile])

NextOpenPath ==
    \/ session = "uninit" /\ \E n \in Names : Open(P("local", n), <<"S">>)
    \/ session = "open" /\ Close
    \/ session = "closed" /\ NewStore
    \/ PullBegin("ui")
    \/ PullCopy("ui")

SpecOpenPath == InitOpenPath /\ [][NextOpenPath]_vars

\* C30: with replication enabled, an open that returns has used the
\* replication-resolved path if a file is there, otherwise the path the caller
\* gave if a file is there; with a file at neither it fails with
\* FILE_NOT_FOUND, leaves the vault data and the key as they were and starts
\* no periodic sync.
C30_OpenPathSelection ==
    [][(/\ result'.op = "open"
        /\ th["ui"].op = "open" \/ (UiIdle /\ result' # result)
        /\ th'["ui"].pc = "idle"
        /\ is_cloud_enabled(config))
       => LET cloud_db_path == get_effective_database_path(config, env)
              db_path == result'.args.path
              used == IF Exists(fs', cloud_db_path) THEN cloud_db_path ELSE db_path
          IN  IF Exists(fs', cloud_db_path) \/ Exists(fs', db_path)
              THEN /\ store'.db_path = used
                   /\ result'.ok
                       => store'.data
                            = json_value(decrypt(fs'[used].content.ct, store'.key))
              ELSE /\ ~result'.ok
                   /\ store'.last_error = "FILE_NOT_FOUND"
                   /\ store'.data = store.data /\ store'.key = store.key
                   /\ auto_sync_timer' = auto_sync_timer]_vars

\* An open has fallen back to the path the caller gave, no file being at the
\* replication-resolved path, and has read the vault stored there.
C30_OpenedCallerPath ==
    /\ result.op = "open" /\ result.ok /\ UiIdle
    /\ is_cloud_enabled(config)
    /\ ~Exists(fs, get_effective_database_path(config, env))
    /\ get_effective_database_path(config, env) # result.args.path
    /\ store.db_path = result.args.path
    /\ store.data.passwords # << >>

\* An open has failed with no file at either candidate path.
OpenFoundNeither ==
    /\ result.op = "open" /\ ~result.ok /\ UiIdle
    /\ ~Exists(fs, get_effective_database_path(config, env))
    /\ ~Exists(fs, result.args.path)

(***************************************************************************)
(* Records and the category list: every record is added under a category   *)
(* the list holds at the time.                                             *)
(***************************************************************************)
InitIntegrity ==
    InitWith([DefaultConfig EXCEPT !.backup_enabled = FALSE], LocalEnv({}))

NextIntegrity ==
    \/ session = "uninit" /\ Create(P("local", "a"), <<"S">>, <<"S">>)
    \/ /\ session = "open"
       /\ \E c \in CategoryNames :
             /\ c \in Range(store.data.categories)
             /\ AddPassword([NoRecord EXCEPT !.title = "Example", !.category = c])
    \/ session = "open" /\ \E c \in CategoryNames : AddCategory(c)
    \/ session = "open" /\ \E c \in CategoryNames : DeleteCategory(c)
    \/ session = "open" /\ \E o \in CategoryNames, n \in CategoryNames \cup {"Home"} :
                              RenameCategory(o, n)

SpecIntegrity == InitIntegrity /\ [][NextIntegrity]_vars

\* C31: on a vault produced by create, after any add_password under a listed
\* category, delete_category, rename_category and add_category, the category
\* of every record is in the category list.
C31_RecordCategoriesListed ==
    session = "open"
    => \A i \in 1..Len(store.data.passwords) :
          store.data.passwords[i].category \in Range(store.data.categories)

(***************************************************************************)
(* The six mutations of an open vault, with a write of the container that  *)
(* may fail part-way.                                                      *)
(***************************************************************************)
InitMutations ==
    InitWith([DefaultConfig EXCEPT !.backup_enabled = FALSE], LocalEnv({"write"}))

NextMutations ==
    \/ session = "uninit" /\ Create(P("local", "a"), <<"S">>, <<"S">>)
    \/ /\ session = "open"
       /\ \E c \in {"Bank", "Other"} :
             AddPassword([NoRecord EXCEPT !.title = "Example", !.category = c])
    \/ /\ session = "open"
       /\ \E id \in {0, 1} :
             UpdatePassword(id, [NoRecord EXCEPT !.title = "Edited", !.category = "Bank"])
    \/ session = "open" /\ \E id \in {0, 1} : DeletePassword(id)
    \/ session = "open" /\ AddCategory("Work")
    \/ session = "open" /\ DeleteCategory("Bank")
    \/ session = "open" /\ \E o \in {"Bank", "Work"}, n \in {"Home", "Other"} :
                              RenameCategory(o, n)

SpecMutations == InitMutations /\ [][NextMutations]_vars

\* C32: rename_category(old, new) with old listed and new not listed puts new
\* where old was in the category list and moves every record of category old
\* to new, whatever the save then returns: no record is left under old and
\* nothing else of a record changes.  With old not listed or new listed it
\* returns failure and changes neither the vault nor the file.
C32_RenameCategoryInPlace ==
    [][(UiIdle /\ result'.op = "rename_category")
       => LET old_name == result'.args.cat
              new_name == result'.args.cat2
              cats == store.data.categories
              pwds == store.data.passwords
          IN  IF old_name \in Range(cats) /\ new_name \notin Range(cats)
              THEN /\ Len(store'.data.categories) = Len(cats)
                   /\ \A k \in 1..Len(cats) :
                         store'.data.categories[k]
                           = IF cats[k] = old_name THEN new_name ELSE cats[k]
                   /\ Len(store'.data.passwords) = Len(pwds)
                   /\ \A i \in 1..Len(pwds) :
                         /\ store'.data.passwords[i]
                              = IF pwds[i].category = old_name
                                THEN [pwds[i] EXCEPT !.category = new_name]
                                ELSE pwds[i]
                         /\ store'.data.passwords[i].category # old_name
                   /\ result'.ok => fs'[store.db_path] = File(Container(store'), now)
              ELSE /\ ~result'.ok
                   /\ store' = store
                   /\ fs' = fs]_vars

\* A rename of the fourth default category has returned success: the new name
\* is fourth in the list, one record has moved to it and another record has
\* kept its category.
C32_RenamedWithRecords ==
    /\ result.op = "rename_category" /\ result.ok
    /\ result.args.cat = "Bank" /\ result.args.cat2 = "Home"
    /\ store.data.categories[4] = "Home"
    /\ Len(store.data.passwords) = 2
    /\ store.data.passwords[1].category = "Home"
    /\ store.data.passwords[2].category = "Other"

(***************************************************************************)
(* Record identifiers: records are added as the clock advances or stands.  *)
(***************************************************************************)
InitIds ==
    InitWith([DefaultConfig EXCEPT !.backup_enabled = FALSE], LocalEnv({}))

NextIds ==
    \/ Tick
    \/ session = "uninit" /\ Create(P("local", "a"), <<"S">>, <<"S">>)
    \/ /\ session = "open"
       /\ \E c \in {"Bank", "Other"} :
             AddPassword([NoRecord EXCEPT !.title = "Example", !.category = c])
    \/ session = "open" /\ \E id \in 0..MaxTime : DeletePassword(id)

SpecIds == InitIds /\ [][NextIds]_vars

InitTick ==
    \E policy \in ConflictPolicies, sync_enabled \in BOOLEAN, remote_mtime \in FileTimes :
        InitWithFiles([CloudConfig EXCEPT !.database_path = P("local", "a"),
                                          !.cloud_storage.conflict_resolution = policy,
                                          !.cloud_storage.sync_enabled = sync_enabled],
                      LocalEnv({"remote"}),
                      [p \in AllPaths |->
                          IF p = P("local", "a") THEN File(DeviceVault(0), 0)
                          ELSE IF p = P("net", "a") THEN File(DeviceVault(1), remote_mtime)
                          ELSE NoFile])

TimerThread ==
    \/ PushBegin("timer")
    \/ PushCopy("timer")
    \/ PushReplace("timer")
    \/ PushRename("timer")
    \/ PullBegin("timer")
    \/ PullCopy("timer")

NextTick ==
    \/ StartAutoSync
    \/ StopAutoSync
    \/ TimerFire
    \/ TimerThread

SpecTick ==
    InitTick /\ [][NextTick]_vars /\ WF_vars(TimerFire) /\ WF_vars(TimerThread)

\* C34: in a tick the push starts only when the tick's pull has returned; the
\* tick ends only after its push has returned (or at once when syncing is
\* switched off) and then leaves one pending timer in its place, no more and
\* no fewer schedules than before; a tick in flight is followed by a pending
\* timer, and a pending timer fires unless the schedule is stopped (with
\* syncing switched off a tick is the single step that sets the timer again).
C34_TickPullsPushesReschedules ==
    /\ [][/\ (th'["timer"].after = "tick_push" /\ th["timer"].after # "tick_push")
              => /\ th["timer"].after = "tick_pull"
                 /\ sync_log'.thread = "timer" /\ sync_log'.kind = "pull"
          /\ (th["timer"].pc # "idle" /\ th'["timer"].pc = "idle")
              => /\ th["timer"].after = "tick_push"
                 /\ sync_log'.thread = "timer" /\ sync_log'.kind = "push"
          /\ (auto_sync_timer["db"].handle = "fired"
                /\ auto_sync_timer'["db"].handle # "fired")
              => \/ /\ auto_sync_timer'["db"].handle = "pending"
                    /\ th'["timer"].pc = "idle"
                    /\ Schedules("db")' = Schedules("db")
                 \/ th'["timer"] = th["timer"]      \* start or stop on the UI thread
        ]_vars
    /\ (th["timer"].pc # "idle") ~> (th["timer"].pc = "idle"
                                      /\ auto_sync_timer["db"].handle = "pending")
    /\ (auto_sync_timer["db"].handle = "pending")
          ~> (th["timer"].after = "tick_pull" \/ auto_sync_timer["db"].handle = "None"
              \/ ~config.cloud_storage.sync_enabled)

\* A second tick has started after a first one pulled, pushed the local file
\* to the drive and set the timer again.
C34_SecondTick ==
    /\ th["timer"].pc = "pull" /\ th["timer"].after = "tick_pull"
    /\ sync_log = [thread |-> "timer", kind |-> "push", ok |-> TRUE, copied |-> TRUE]
    /\ config.cloud_storage.last_sync_time # NoTime
    /\ auto_sync_timer["db"].handle = "fired"

(***************************************************************************)
(* open() called on a store that is already open: the other file is        *)
(* missing, cut short, under another key, or not JSON.                     *)
(***************************************************************************)
InitReopen ==
    \E b \in {f \in OpenFiles : JsonKind(f.content.ct.plain) \in {"vault", "invalid"}} :
        InitWithFiles([DefaultConfig EXCEPT !.backup_enabled = FALSE], LocalEnv({}),
                      [p \in AllPaths |-> IF p = P("local", "b") THEN b ELSE NoFile])

NextReopen ==
    \/ session = "uninit" /\ Create(P("local", "a"), <<"T">>, <<"T">>)
    \/ session = "open" /\ \E n \in Names, pw \in Secrets : Open(P("local", n), pw)
    \/ /\ session = "open"
       /\ AddPassword([NoRecord EXCEPT !.title = "Example", !.category = "Other"])
    \/ session = "open" /\ SaveCall

SpecReopen == InitReopen /\ [][NextReopen]_vars

\* C35: an open() that fails on a store that is open leaves the store's vault,
\* key, salt and path as they were before the call.
C35_FailedOpenKeepsSession ==
    [][(session = "open" /\ UiIdle /\ result'.op = "open" /\ ~result'.ok)
       => /\ store'.data = store.data
          /\ store'.key = store.key
          /\ store'.salt = store.salt
          /\ store'.db_path = store.db_path]_vars

(***************************************************************************)
(* The second-factor secret of an open vault is replaced, and the vault is *)
(* saved.                                                                  *)
(***************************************************************************)
InitTotp ==
    InitWith([DefaultConfig EXCEPT !.backup_enabled = FALSE], LocalEnv({}))

NextTotp ==
    \/ session = "uninit" /\ \E pw \in Secrets : Create(P("local", "a"), pw, pw)
    \/ /\ session = "open"
       /\ \E c \in {"Bank", "Other"} :
             AddPassword([NoRecord EXCEPT !.title = "Example", !.category = c])
    \/ session = "open" /\ \E totp_secret \in Secrets : UpdateTotpSecret(totp_secret, "user")
    \/ session = "open" /\ SaveCall

SpecTotp == InitTotp /\ [][NextTotp]_vars

\* C36: when an operation of an open session has returned success, the
\* container save() wrote can be opened by a new store with the session's
\* master secret or with the stored totp_secret.
C36_SavedContainerOpens ==
    (session = "open" /\ UiIdle /\ result.ok)
    => \E secret \in {store.key.pw, store.data.totp_secret} :
          open_body(InitStore, config, fs, env, store.db_path, secret).ok

\* C37: when add_password, update_password, delete_password, add_category,
\* delete_category or rename_category returns failure, the records and
\* categories of the vault in memory are what they were before the call.
C37_FailedMutationChangesNothing ==
    [][(/\ UiIdle
        /\ result'.op \in {"add_password", "update_password", "delete_password",
                           "add_category", "delete_category", "rename_category"}
        /\ ~result'.ok)
       => /\ store'.data.passwords = store.data.passwords
          /\ store'.data.categories = store.data.categories]_vars

(***************************************************************************)
(* Imports into a vault whose container may fail to be written.            *)
(***************************************************************************)
InitImportFail ==
    \E d \in ImportedVaults :
        InitWithFiles([DefaultConfig EXCEPT !.backup_enabled = FALSE],
                      LocalEnv({"write"}),
                      [p \in AllPaths |->
                          IF p = P("docs", "b")
                          THEN File(export_data(d, <<"S">>, 1), 0) ELSE NoFile])

NextImportFail ==
    \/ session = "uninit" /\ Create(P("local", "a"), <<"S">>, <<"S">>)
    \/ /\ session = "open"
       /\ AddPassword([NoRecord EXCEPT !.title = "Example", !.category = "Other"])
    \/ session = "open" /\ \E n \in Names, pw \in Secrets : ImportData(P("docs", n), pw)

SpecImportFail == InitImportFail /\ [][NextImportFail]_vars

\* C38: when import_data returns failure, the categories and records of the
\* vault in memory are what they were before the call and no file has
\* changed.
C38_FailedImportChangesNothing ==
    [][(UiIdle /\ result'.op = "import_data" /\ ~result'.ok)
       => /\ store'.data.passwords = store.data.passwords
          /\ store'.data.categories = store.data.categories
          /\ fs' = fs]_vars

(***************************************************************************)
(* create() whose write of the container may fail, with replication        *)
(* enabled and disabled and a database_path configured before or not.      *)
(***************************************************************************)
InitCreateFail ==
    \E enabled \in BOOLEAN, database_path \in {NoPath, P("local", "b")},
       readonly \in BOOLEAN :
        InitWith([CloudConfig EXCEPT !.cloud_storage.enabled = enabled,
                                     !.database_path = database_path],
                 [LocalEnv({"write"}) EXCEPT
                     !.writable = IF readonly THEN Dirs \ {"local"} ELSE Dirs])

NextCreateFail ==
    \/ Tick
    \/ session = "uninit" /\ \E n \in Names : Create(P("local", n), <<"S">>, <<"S">>)
    \/ /\ session = "open"
       /\ AddPassword([NoRecord EXCEPT !.title = "Example", !.category = "Other"])
    \/ PushBegin("ui")
    \/ PushCopy("ui")
    \/ PushReplace("ui")
    \/ PushRename("ui")

SpecCreateFail == InitCreateFail /\ [][NextCreateFail]_vars

\* C39: when create() returns failure because the container could not be
\* saved, the configured database_path is what it was before the call, with
\* replication enabled and disabled.
C39_FailedCreateKeepsConfig ==
    [][(UiIdle /\ th'["ui"].pc = "idle" /\ result'.op = "create" /\ ~result'.ok)
       => config'.database_path = config.database_path]_vars

(***************************************************************************)
(* save() on the UI thread while the timer's thread runs a tick: the write *)
(* of the container is two steps, the file is opened (and so emptied) and  *)
(* the bytes are written.                                                  *)
(***************************************************************************)
InitRace ==
    \E policy \in {"newer", "remote"}, remote_exists \in BOOLEAN :
        InitWithFiles([CloudConfig EXCEPT !.database_path = P("local", "a"),
                                          !.cloud_storage.conflict_resolution = policy],
                      LocalEnv({}),
                      [p \in AllPaths |->
                          IF p = P("local", "a") THEN File(DeviceVault(0), 0)
                          ELSE IF p = P("net", "a") /\ remote_exists
                          THEN File(DeviceVault(1), 0)
                          ELSE NoFile])

\* PasswordDatabase.save, lines 230-248: last_modified is set, the text is
\* encrypted and open(self.db_path, "wb") empties the file.
SaveOpenFile ==
    /\ UiIdle
    /\ hist.saves < MaxSaves
    /\ store.key # NoKey /\ store.db_path # NoPath
    /\ store' = [store EXCEPT !.data.last_modified = now]
    /\ fs' = [fs EXCEPT ![store.db_path] = File(EmptyContent, now)]
    /\ th' = [th EXCEPT !["ui"] = [IdleThread EXCEPT !.pc = "save_write", !.op = "save"]]
    /\ UNCHANGED <<now, backups, env, config, session, sync_lock, is_syncing,
                   auto_sync_timer, result, hist, sync_log>>

\* PasswordDatabase.save, lines 249-255: f.write(self.salt + encrypted_data),
\* then the push.  When another thread wrote the file since it was opened, what
\* the file holds afterwards is either writer's bytes or a mix of both.
SaveWriteFile ==
    /\ th["ui"].pc = "save_write"
    /\ UNCHANGED <<now, backups, env, sync_lock, is_syncing, sync_log>>
    /\ \E written \in {File(Container(store), now)}
                       \cup (IF fs[store.db_path].content = EmptyContent THEN {}
                             ELSE {File(ShortContent, now)}) :
          IF is_cloud_enabled(config) /\ config.cloud_storage.sync_on_save
          THEN /\ th' = [th EXCEPT !["ui"] =
                           [IdleThread EXCEPT !.pc = "push", !.mgr = "db",
                                              !.lpath = store.db_path,
                                              !.after = "save", !.op = "save",
                                              !.args = NoArgs]]
               /\ fs' = [fs EXCEPT ![store.db_path] = written]
               /\ UNCHANGED <<store, config, result, session, hist, auto_sync_timer>>
          ELSE SaveReturned("save", TRUE, "none", store, config,
                            [fs EXCEPT ![store.db_path] = written], NoArgs)

NextRace ==
    \/ session = "uninit" /\ Open(P("local", "a"), <<"S">>)
    \/ session = "open" /\ SaveOpenFile
    \/ SaveWriteFile
    \/ TimerFire
    \/ \E t \in Threads : PushBegin(t)
    \/ \E t \in Threads : PushCopy(t)
    \/ \E t \in Threads : PushReplace(t)
    \/ \E t \in Threads : PushRename(t)
    \/ \E t \in Threads : PullBegin(t)
    \/ \E t \in Threads : PullCopy(t)

SpecRace == InitRace /\ [][NextRace]_vars

\* C40: while save() has the container open for writing, the pull of a tick
\* is not at its copy onto that same file.
C40_SaveExcludesTickPull ==
    ~(/\ th["ui"].pc = "save_write"
      /\ th["timer"].pc = "pull_copy"
      /\ th["timer"].lpath = store.db_path)

=============================================================================
